---- MODULE Spec2Model ----
(***************************************************************************)
(* Algorithm C (exact covering with colours via dancing links) as          *)
(* implemented by XCC with XCCOptions: validation, table building, the     *)
(* link primitives, MRV, the driver C1..C8, lvisit and the minimax cutoff. *)
(*                                                                         *)
(* A Go string is modelled as a sequence of one-character strings, so that *)
(* strings.Index, slicing and concatenation are computed, not assumed.     *)
(* A Go slice indexed from 0 is a function on 0..len-1.  The slice llen is *)
(* top[0:n+1] in the source (shared storage), so llen[i] is top[i] here.   *)
(***************************************************************************)
EXTENDS Integers, Sequences, FiniteSets, TLC

\* ------------------------------------------------------------ bounds ----
\* largest number of options in the exhaustively enumerated inputs
MaxOptions == 3

\* ----------------------------------------------------------- strings ----
Colon == ":"

\* strings.Index(s, ":"): 0-based position of the first colon, -1 if none
StrIndex(s) ==
  IF \E k \in 1..Len(s) : s[k] = Colon
  THEN (CHOOSE k \in 1..Len(s) : s[k] = Colon /\ \A j \in 1..(k-1) : s[j] # Colon) - 1
  ELSE -1

\* item[:i] when a colon is present at i, the whole string otherwise
StripColor(ref) == IF StrIndex(ref) > -1 THEN SubSeq(ref, 1, StrIndex(ref)) ELSE ref

\* item[iColon+1:]
ColorNameOf(ref) == SubSeq(ref, StrIndex(ref) + 2, Len(ref))

\* a slice of length k filled with v
MakeArr(k, v) == [j \in 0..(k-1) |-> v]

ArrLen(a) == Cardinality(DOMAIN a)

\* ---------------------------------------------------------- validate ----
\* first index k of seq such that seq[k] occurs earlier in seq or in other; 0 if none
FirstRepeat(seq, other) ==
  IF \E k \in 1..Len(seq) : (\E j \in 1..(k-1) : seq[j] = seq[k]) \/ (\E j \in 1..Len(other) : other[j] = seq[k])
  THEN CHOOSE k \in 1..Len(seq) :
         /\ (\E j \in 1..(k-1) : seq[j] = seq[k]) \/ (\E j \in 1..Len(other) : other[j] = seq[k])
         /\ \A k2 \in 1..(k-1) : ~((\E j \in 1..(k2-1) : seq[j] = seq[k2]) \/ (\E j \in 1..Len(other) : other[j] = seq[k2]))
  ELSE 0

Known(its, sec, nm) == (\E j \in 1..Len(its) : its[j] = nm) \/ (\E j \in 1..Len(sec) : sec[j] = nm)

\* the error returned by validate; ErrNil when the input is accepted
ErrNil == "nil"

\* validate without its pass over the secondary items
validateSkippingSecondary(its, opts, sec) ==
  IF Len(its) = 0 THEN "items may not be empty"
  ELSE IF FirstRepeat(its, <<>>) # 0 THEN "Item is not unique"
  ELSE IF \E o \in 1..Len(opts) : \E k \in 1..Len(opts[o]) : ~Known(its, sec, StripColor(opts[o][k]))
       THEN "Option contains an item which is not an item or secondary item"
  ELSE ErrNil

validate(its, opts, sec) ==
  IF Len(its) = 0 THEN "items may not be empty"
  ELSE IF FirstRepeat(its, <<>>) # 0 THEN "Item is not unique"
  ELSE IF FirstRepeat(sec, its) # 0 THEN "Secondary item is not unique"
  ELSE IF \E o \in 1..Len(opts) : \E k \in 1..Len(opts[o]) : ~Known(its, sec, StripColor(opts[o][k]))
       THEN "Option contains an item which is not an item or secondary item"
  ELSE ErrNil

\* -------------------------------------------------------- initialize ----
\* math.MaxInt16, the initial value of cutoff
MaxInt16 == 32767

\* name[]: the items then the secondary items at 1..n, "" at 0 and n+1
InitName(its, sec) ==
  LET all == its \o sec
  IN  [j \in 0..(Len(all) + 1) |-> IF j \in 1..Len(all) THEN all[j] ELSE <<>>]

\* llink[] after the item loop and the six sentinel assignments, in source order
InitLlink(n1, n) ==
  LET l0 == [j \in 0..(n + 1) |-> IF j \in 1..n THEN j - 1 ELSE 0]
      l1 == [l0 EXCEPT ![n + 1] = n]
      l2 == [l1 EXCEPT ![n1 + 1] = n + 1]
  IN  [l2 EXCEPT ![0] = n1]

\* rlink[] after the item loop and the six sentinel assignments, in source order
InitRlink(n1, n) ==
  LET r0 == [j \in 0..(n + 1) |-> IF j \in 0..(n - 1) THEN j + 1 ELSE 0]
      r1 == [r0 EXCEPT ![n] = n + 1]
      r2 == [r1 EXCEPT ![n + 1] = n1 + 1]
  IN  [r2 EXCEPT ![n1] = 0]

\* size = n + 1 + nOptions + 1 + nOptionItems
RECURSIVE SumLen(_)
SumLen(opts) == IF opts = <<>> THEN 0 ELSE Len(Head(opts)) + SumLen(Tail(opts))

TableSize(n, opts) == n + 1 + Len(opts) + 1 + SumLen(opts)

\* the loop "for _, value := range name": index of the first entry equal to
\* item (name[0] = "" included), len(name) when there is none
NameIndex(nm, item) ==
  IF \E j \in DOMAIN nm : nm[j] = item
  THEN CHOOSE j \in DOMAIN nm : nm[j] = item /\ \A k \in 0..(j - 1) : nm[k] # item
  ELSE ArrLen(nm)

\* index of the colour name in colors[1:], len(colors) when it is new.
\* colors holds the source's colors[1:], so colors[k] is the same entry.
ColorIndex(cols, cn) ==
  IF \E c \in 1..Len(cols) : cols[c] = cn
  THEN CHOOSE c \in 1..Len(cols) : cols[c] = cn /\ \A k \in 1..(c - 1) : cols[k] # cn
  ELSE Len(cols) + 1

\* the walk "for dlink[tail] != head"
RECURSIVE ListTail(_, _, _)
ListTail(dl, head, tail) == IF dl[tail] = head THEN tail ELSE ListTail(dl, head, dl[tail])

\* an insertion at the head of the item's list instead of its tail
InsertItemAtHead(b, nm, ref) ==
  LET x == b.x + 1
      hasColor == StrIndex(ref) > -1
      item == StripColor(ref)
      itemColor == IF hasColor THEN ColorIndex(b.colors, ColorNameOf(ref)) ELSE 0
      i == NameIndex(nm, item)
      first == b.dlink[i]
  IN  [b EXCEPT !.x = x,
                !.colors = IF hasColor /\ itemColor = Len(b.colors) + 1
                           THEN Append(b.colors, ColorNameOf(ref)) ELSE b.colors,
                !.top = [b.top EXCEPT ![x] = i, ![i] = @ + 1],
                !.color = [b.color EXCEPT ![x] = itemColor],
                !.dlink = [b.dlink EXCEPT ![i] = x, ![x] = first],
                !.ulink = [b.ulink EXCEPT ![x] = i, ![first] = x]]

\* one item reference of an option: a new node x appended to its item's list
InsertItem(b, nm, ref) ==
  LET x == b.x + 1
      hasColor == StrIndex(ref) > -1
      item == StripColor(ref)
      itemColor == IF hasColor THEN ColorIndex(b.colors, ColorNameOf(ref)) ELSE 0
      i == NameIndex(nm, item)
      tail == ListTail(b.dlink, i, i)
  IN  [b EXCEPT !.x = x,
                !.colors = IF hasColor /\ itemColor = Len(b.colors) + 1
                           THEN Append(b.colors, ColorNameOf(ref)) ELSE b.colors,
                !.top = [b.top EXCEPT ![x] = i, ![i] = @ + 1],
                !.color = [b.color EXCEPT ![x] = itemColor],
                !.dlink = [b.dlink EXCEPT ![tail] = x, ![x] = i],
                !.ulink = [b.ulink EXCEPT ![x] = tail, ![i] = x]]

RECURSIVE InsertItems(_, _, _)
InsertItems(b, nm, refs) ==
  IF refs = <<>> THEN b ELSE InsertItems(InsertItem(b, nm, Head(refs)), nm, Tail(refs))

\* a spacer that records its serial number but not the option's first and last node
InsertSpacerUnlinked(b) ==
  LET x == b.x + 1
  IN  [b EXCEPT !.x = x,
                !.spacer = b.spacer - 1,
                !.top = [b.top EXCEPT ![x] = b.spacer - 1],
                !.spacerX = x]

\* the spacer written after each option
InsertSpacer(b) ==
  LET x == b.x + 1
  IN  [b EXCEPT !.dlink = [b.dlink EXCEPT ![b.spacerX] = b.x],
                !.x = x,
                !.ulink = [b.ulink EXCEPT ![x] = b.spacerX + 1],
                !.spacer = b.spacer - 1,
                !.top = [b.top EXCEPT ![x] = b.spacer - 1],
                !.spacerX = x]

RECURSIVE InsertOptions(_, _, _)
InsertOptions(b, nm, opts) ==
  IF opts = <<>> THEN b
  ELSE InsertOptions(InsertSpacer(InsertItems(b, nm, Head(opts))), nm, Tail(opts))

\* the tables built by initialize
initialize(its, opts, sec) ==
  LET n1 == Len(its)
      n == Len(its) + Len(sec)
      size == TableSize(n, opts)
      nm == InitName(its, sec)
      b0 == [top |-> MakeArr(size, 0),
             ulink |-> [j \in 0..(size - 1) |-> IF j \in 1..n THEN j ELSE 0],
             dlink |-> [j \in 0..(size - 1) |-> IF j \in 1..n THEN j ELSE 0],
             color |-> MakeArr(size, 0),
             colors |-> <<>>,
             x |-> n + 1, spacer |-> 0, spacerX |-> n + 1]
      b == InsertOptions(b0, nm, opts)
  IN  [n1 |-> n1, n |-> n, size |-> size, name |-> nm,
       llink |-> InitLlink(n1, n), rlink |-> InitRlink(n1, n),
       top |-> b.top, ulink |-> b.ulink, dlink |-> b.dlink,
       color |-> b.color, colors |-> b.colors,
       level |-> 0, state |-> MakeArr(Len(opts), 0), cutoff |-> MaxInt16]

\* ------------------------------------------------------------- state ----
VARIABLES
  items, options, secondary, xccOptions,   \* the arguments of XCC
  minimax,                                 \* the minimax argument of the XCC of dancing_links_xcc.go
  dims,                                    \* the lengths initialize sizes the tables from
  removed,                                 \* the items the Exercise 83 block of C6 has covered so far
  pc,                                      \* the driver's position: C1..C8, Done, Panic
  err,                                     \* the value XCC returns ("running" before it returns)
  name, colors,                            \* item names, colour names (colors[1:])
  llink, rlink, top, ulink, dlink, color,  \* the working arrays (llen is top[0:n+1])
  level, state, cutoff,
  i,                                       \* the driver's variable i
  ops,                                     \* number of cover/commit/uncommit/uncover calls made by the driver and lvisit
  pending,                                 \* covers and purifies not yet undone; whether undos were nested
  visits,                                  \* the visitor calls so far: solution, state[0:level], answer
  stats,                                   \* the ExactCoverStats the stats argument points to
  stats0                                   \* stats as it was when XCC was entered

vars == <<items, options, secondary, xccOptions, minimax, dims, removed, pc, err, name, colors,
          llink, rlink, top, ulink, dlink, color, level, state, cutoff, i, ops, pending, visits,
          stats, stats0>>

n1 == Len(items)
n == Len(items) + Len(secondary)
size == TableSize(n, options)

\* the mutable memory the primitives work on
Mem == [llink |-> llink, rlink |-> rlink, top |-> top, ulink |-> ulink,
        dlink |-> dlink, color |-> color, level |-> level, state |-> state,
        cutoff |-> cutoff, ops |-> ops, pending |-> pending]

SetMem(m) ==
  /\ llink' = m.llink /\ rlink' = m.rlink /\ top' = m.top /\ ulink' = m.ulink
  /\ dlink' = m.dlink /\ color' = m.color /\ level' = m.level /\ state' = m.state
  /\ cutoff' = m.cutoff /\ ops' = m.ops /\ pending' = m.pending

\* no cover or purify made yet
NoCalls == [calls |-> <<>>, nested |-> TRUE]

\* memory m once the call c (a cover or a purify) is known to be made next
Called(m, c) == [m EXCEPT !.pending.calls = Append(@, c)]

\* memory m once the undo of call c is known to be made next: it is nested when
\* c is the last call not yet undone
Reverted(m, c) ==
  LET cs == m.pending.calls
  IN  IF Len(cs) > 0 /\ cs[Len(cs)] = c
      THEN [m EXCEPT !.pending.calls = SubSeq(cs, 1, Len(cs) - 1)]
      ELSE [m EXCEPT !.pending.nested = FALSE]

\* --------------------------------------------------------------- mrv ----
RECURSIVE mrvFrom(_, _, _, _)
mrvFrom(m, p, best, theta) ==
  IF p = 0 THEN best
  ELSE LET lambda == m.top[p]
       IN  IF lambda < theta \/ theta = -1
           THEN IF lambda = 0 THEN p ELSE mrvFrom(m, m.rlink[p], p, lambda)
           ELSE mrvFrom(m, m.rlink[p], best, theta)

\* mrv keeping the last item of minimum length instead of the first
RECURSIVE mrvLastFrom(_, _, _, _)
mrvLastFrom(m, p, best, theta) ==
  IF p = 0 THEN best
  ELSE LET lambda == m.top[p]
       IN  IF lambda <= theta \/ theta = -1
           THEN mrvLastFrom(m, m.rlink[p], p, lambda)
           ELSE mrvLastFrom(m, m.rlink[p], best, theta)

mrvLast(m) == mrvLastFrom(m, m.rlink[0], 0, -1)

\* the first item of the active primary list, whatever its length
mrvFirstItem(m) == m.rlink[0]

mrv(m) == mrvFrom(m, m.rlink[0], 0, -1)

\* ------------------------------------------------------- hide/unhide ----
\* hide that unlinks only the uncoloured nodes of the option
RECURSIVE hideUncoloredFrom(_, _, _)
hideUncoloredFrom(m, p, q) ==
  IF q = p THEN m
  ELSE LET x == m.top[q]
           u == m.ulink[q]
           d == m.dlink[q]
       IN  IF x <= 0 THEN hideUncoloredFrom(m, p, u)
           ELSE hideUncoloredFrom(IF m.color[q] = 0
                                  THEN [m EXCEPT !.dlink[u] = d, !.ulink[d] = u, !.top[x] = @ - 1]
                                  ELSE m,
                                  p, q + 1)

hideUncolored(m, p) == hideUncoloredFrom(m, p, p + 1)

\* hide that relinks the node above but not the node below
RECURSIVE hideOneWayFrom(_, _, _)
hideOneWayFrom(m, p, q) ==
  IF q = p THEN m
  ELSE LET x == m.top[q]
           u == m.ulink[q]
           d == m.dlink[q]
       IN  IF x <= 0 THEN hideOneWayFrom(m, p, u)
           ELSE hideOneWayFrom(IF m.color[q] >= 0
                               THEN [m EXCEPT !.dlink[u] = d, !.top[x] = @ - 1]
                               ELSE m,
                               p, q + 1)

hideOneWay(m, p) == hideOneWayFrom(m, p, p + 1)

RECURSIVE hideFrom(_, _, _)
hideFrom(m, p, q) ==
  IF q = p THEN m
  ELSE LET x == m.top[q]
           u == m.ulink[q]
           d == m.dlink[q]
       IN  IF x <= 0 THEN hideFrom(m, p, u)
           ELSE hideFrom(IF m.color[q] >= 0
                         THEN [m EXCEPT !.dlink[u] = d, !.ulink[d] = u, !.top[x] = @ - 1]
                         ELSE m,
                         p, q + 1)

hide(m, p) == hideFrom(m, p, p + 1)

\* unhide's step that links node q back without counting it in llen
unhideNodeWithoutLen(m, q) ==
  LET x == m.top[q]
      u == m.ulink[q]
      d == m.dlink[q]
  IN  IF m.color[q] >= 0 THEN [m EXCEPT !.dlink[u] = q, !.ulink[d] = q] ELSE m

\* one node q of unhide's walk (q is not a spacer)
unhideNode(m, q) ==
  LET x == m.top[q]
      u == m.ulink[q]
      retarget == xccOptions.Minimax /\ m.dlink[q] > m.cutoff
      m1 == IF retarget THEN [m EXCEPT !.dlink[q] = x] ELSE m
      d == IF retarget THEN x ELSE m.dlink[q]
  IN  IF m1.color[q] >= 0
      THEN [m1 EXCEPT !.dlink[u] = q, !.ulink[d] = q, !.top[x] = @ + 1]
      ELSE m1

RECURSIVE unhideFrom(_, _, _)
unhideFrom(m, p, q) ==
  IF q = p THEN m
  ELSE IF m.top[q] <= 0 THEN unhideFrom(m, p, m.dlink[q])
  ELSE unhideFrom(unhideNode(m, q), p, q - 1)

unhide(m, p) == unhideFrom(m, p, p - 1)

\* ----------------------------------------------------- cover/uncover ----
RECURSIVE coverFrom(_, _, _)
coverFrom(m, it, p) ==
  IF p = it THEN m
  ELSE LET m1 == hide(m, p) IN coverFrom(m1, it, m1.dlink[p])

\* cover that hides the options of item it but leaves it in the horizontal list
coverKeepingItem(m, it) == coverFrom(m, it, m.dlink[it])

cover(m, it) ==
  LET m1 == coverFrom(m, it, m.dlink[it])
      l == m1.llink[it]
      r == m1.rlink[it]
  IN  [m1 EXCEPT !.rlink[l] = r, !.llink[r] = l]

\* uncover's minimax prelude: unlink every node > cutoff from item it's list
RECURSIVE uncoverPrune(_, _, _)
uncoverPrune(m, it, q) ==
  IF q = it THEN m
  ELSE LET u == m.ulink[q]
           d == m.dlink[q]
           m1 == IF q > m.cutoff
                 THEN [m EXCEPT !.dlink[u] = d, !.ulink[d] = u, !.top[it] = @ - 1]
                 ELSE m
       IN  uncoverPrune(m1, it, m1.dlink[q])

RECURSIVE uncoverFrom(_, _, _)
uncoverFrom(m, it, p) ==
  IF p = it THEN m
  ELSE LET m1 == unhide(m, p) IN uncoverFrom(m1, it, m1.ulink[p])

\* uncover that unhides the options of item it but leaves it out of the horizontal list
uncoverKeepingOut(m, it) ==
  LET m0 == IF xccOptions.Minimax THEN uncoverPrune(m, it, m.dlink[it]) ELSE m
  IN  uncoverFrom(m0, it, m0.ulink[it])

uncover(m, it) ==
  LET m0 == IF xccOptions.Minimax THEN uncoverPrune(m, it, m.dlink[it]) ELSE m
      l == m0.llink[it]
      r == m0.rlink[it]
      m1 == [m0 EXCEPT !.rlink[l] = it, !.llink[r] = it]
  IN  uncoverFrom(m1, it, m1.ulink[it])

\* --------------------------------------------------- purify/unpurify ----
\* purify that hides the options of other colours but leaves the nodes of
\* colour c as they are
RECURSIVE purifyKeepingFrom(_, _, _, _)
purifyKeepingFrom(m, c, it, q) ==
  IF q = it THEN m
  ELSE LET m1 == IF m.color[q] = c THEN m ELSE hide(m, q)
       IN  purifyKeepingFrom(m1, c, it, m1.dlink[q])

purifyKeeping(m, p) ==
  LET c == m.color[p]
      it == m.top[p]
      m0 == [m EXCEPT !.color[it] = c]
  IN  purifyKeepingFrom(m0, c, it, m0.dlink[it])

RECURSIVE purifyFrom(_, _, _, _)
purifyFrom(m, c, it, q) ==
  IF q = it THEN m
  ELSE LET m1 == IF m.color[q] = c THEN [m EXCEPT !.color[q] = -1] ELSE hide(m, q)
       IN  purifyFrom(m1, c, it, m1.dlink[q])

purify(m, p) ==
  LET c == m.color[p]
      it == m.top[p]
      m0 == [m EXCEPT !.color[it] = c]
  IN  purifyFrom(m0, c, it, m0.dlink[it])

\* unpurify that unhides the options of other colours but leaves the nodes
\* purify set to -1 as they are
RECURSIVE unpurifyLeavingFrom(_, _, _)
unpurifyLeavingFrom(m, it, q) ==
  IF q = it THEN m
  ELSE LET m1 == IF m.color[q] < 0 THEN m ELSE unhide(m, q)
       IN  unpurifyLeavingFrom(m1, it, m1.ulink[q])

unpurifyLeavingColor(m, p) == unpurifyLeavingFrom(m, m.top[p], m.ulink[m.top[p]])

\* unpurify that gives the nodes set to -1 their colour back but unhides nothing
RECURSIVE unpurifyColorOnlyFrom(_, _, _, _)
unpurifyColorOnlyFrom(m, c, it, q) ==
  IF q = it THEN m
  ELSE unpurifyColorOnlyFrom(IF m.color[q] < 0 THEN [m EXCEPT !.color[q] = c] ELSE m,
                             c, it, m.ulink[q])

unpurifyColorOnly(m, p) == unpurifyColorOnlyFrom(m, m.color[p], m.top[p], m.ulink[m.top[p]])

RECURSIVE unpurifyFrom(_, _, _, _)
unpurifyFrom(m, c, it, q) ==
  IF q = it THEN m
  ELSE LET m1 == IF m.color[q] < 0 THEN [m EXCEPT !.color[q] = c] ELSE unhide(m, q)
           q2 == m1.ulink[q]
           m2 == IF xccOptions.Minimax /\ q2 > m1.cutoff
                 THEN [m1 EXCEPT !.dlink[q2] = it, !.ulink[it] = q2]
                 ELSE m1
       IN  unpurifyFrom(m2, c, it, q2)

unpurify(m, p) ==
  LET c == m.color[p]
      it == m.top[p]
  IN  unpurifyFrom(m, c, it, m.ulink[it])

\* --------------------------------------------------- commit/uncommit ----
\* commit that covers uncoloured items and leaves coloured ones alone
commitWithoutPurify(m, p, j) ==
  LET m0 == [m EXCEPT !.ops = @ + 1]
  IN  IF m0.color[p] = 0 THEN cover(m0, j) ELSE m0

commit(m, p, j) ==
  LET m0 == [m EXCEPT !.ops = @ + 1]
      m1 == IF m0.color[p] = 0 THEN cover(Called(m0, <<"cover", j>>), j) ELSE m0
  IN  IF m1.color[p] > 0 THEN purify(Called(m1, <<"purify", p>>), p) ELSE m1

uncommit(m, p, j) ==
  LET m0 == [m EXCEPT !.ops = @ + 1]
      m1 == IF m0.color[p] = 0 THEN uncover(Reverted(m0, <<"cover", j>>), j) ELSE m0
  IN  IF m1.color[p] > 0 THEN unpurify(Reverted(m1, <<"purify", p>>), p) ELSE m1

\* ------------------------------------------------------------ lvisit ----
\* "for top[p-1] > 0 { p-- }": the first node of p's option
RECURSIVE OptionStart(_, _)
OptionStart(tp, p) == IF tp[p - 1] > 0 THEN OptionStart(tp, p - 1) ELSE p

\* "for top[q] > 0 { ...; q++ }": the nodes from q up to the next spacer
RECURSIVE OptionNodes(_, _)
OptionNodes(tp, q) == IF tp[q] > 0 THEN <<q>> \o OptionNodes(tp, q + 1) ELSE <<>>

\* the nodes of the option of state[k], first node first
StateNodes(m, k) == OptionNodes(m.top, OptionStart(m.top, m.state[k]))

\* a Go map as a function on its key set
EmptyMap == [k \in {} |-> <<>>]

MapPut(f, k, v) == [x \in (DOMAIN f) \cup {k} |-> IF x = k THEN v ELSE f[x]]

\* sitemColor after the nodes of one option
RECURSIVE SitemColorNodes(_, _, _)
SitemColorNodes(map, m, nodes) ==
  IF nodes = <<>> THEN map
  ELSE LET q == Head(nodes)
       IN  SitemColorNodes(IF m.color[q] > 0
                           THEN MapPut(map, name[m.top[q]], colors[m.color[q]])
                           ELSE map,
                           m, Tail(nodes))

\* sitemColor after the options of state[k..level-1]
RECURSIVE SitemColor(_, _, _)
SitemColor(map, m, k) ==
  IF k >= m.level THEN map
  ELSE SitemColor(SitemColorNodes(map, m, StateNodes(m, k)), m, k + 1)

\* the solution with bare item names, no colour appended
SolutionWithoutColors(m) ==
  [k \in 1..m.level |->
     LET nodes == StateNodes(m, k - 1)
     IN  [j \in 1..Len(nodes) |-> name[m.top[nodes[j]]]]]

\* the solution handed to the visitor: one list of strings per level
Solution(m) ==
  LET sc == SitemColor(EmptyMap, m, 0)
      item(q) == name[m.top[q]]
      shown(q) == IF item(q) \in DOMAIN sc THEN item(q) \o <<Colon>> \o sc[item(q)] ELSE item(q)
  IN  [k \in 1..m.level |->
         LET nodes == StateNodes(m, k - 1)
         IN  [j \in 1..Len(nodes) |-> shown(nodes[j])]]

\* pMax: the largest entry of state[0:level] (0 when there is none)
RECURSIVE PMax(_, _, _)
PMax(m, k, best) ==
  IF k >= m.level THEN best
  ELSE PMax(m, k + 1, IF m.state[k] > best THEN m.state[k] ELSE best)

\* lMax: the first level holding pMax
LMax(m) ==
  IF \E k \in 0..(m.level - 1) : m.state[k] = PMax(m, 0, 0)
  THEN CHOOSE k \in 0..(m.level - 1) :
         m.state[k] = PMax(m, 0, 0) /\ \A j \in 0..(k - 1) : m.state[j] # PMax(m, 0, 0)
  ELSE 0

\* "for top[pp] > 0 { pp-- or pp++ }": the spacer before (MinimaxSingle) or after pMax's option
RECURSIVE CutoffSpacer(_, _)
CutoffSpacer(m, pp) ==
  IF m.top[pp] > 0
  THEN CutoffSpacer(m, IF xccOptions.MinimaxSingle THEN pp - 1 ELSE pp + 1)
  ELSE pp

\* from node q downwards in item x's list: unlink every node > cutoff
RECURSIVE pruneList(_, _, _)
pruneList(m, x, q) ==
  IF q = x THEN m
  ELSE LET u == m.ulink[q]
           d == m.dlink[q]
           m1 == IF q > m.cutoff
                 THEN [m EXCEPT !.dlink[u] = d, !.ulink[d] = u, !.top[x] = @ - 1]
                 ELSE m
       IN  pruneList(m1, x, m1.dlink[q])

RECURSIVE pruneState(_, _)
pruneState(m, k) ==
  IF k >= m.level THEN m
  ELSE pruneState(pruneList(m, m.top[m.state[k]], m.state[k]), k + 1)

\* "Backtrack for each item in state >= lMax": uncover and level--, no uncommit
RECURSIVE forcedUnwind(_, _, _)
forcedUnwind(m, k, lMax) ==
  IF k < lMax THEN m
  ELSE forcedUnwind([uncover(Reverted([m EXCEPT !.ops = @ + 1], <<"cover", m.top[m.state[k]], k>>),
                             m.top[m.state[k]]) EXCEPT !.level = @ - 1],
                    k - 1, lMax)

\* the minimax part of lvisit
lvisitMinimax(m) ==
  LET pp == CutoffSpacer(m, PMax(m, 0, 0))
  IN  IF pp # m.cutoff
      THEN LET m1 == pruneState([m EXCEPT !.cutoff = pp], 0)
           IN  IF xccOptions.MinimaxSingle
               THEN forcedUnwind(m1, m1.level - 1, LMax(m))
               ELSE m1
      ELSE m

\* lvisit: the solution and the memory it leaves
lvisit(m) ==
  [sol |-> Solution(m),
   mem |-> IF xccOptions.Minimax THEN lvisitMinimax(m) ELSE m]

\* ------------------------------------------------------------- stats ----
\* the arrays before initialize has run; also a nil slice
NoArr == <<>>

\* "for len(stats.Levels) < n { append 0 }" (make([]int, n) when Levels is nil)
LevelsGrown(lv, k) == [j \in 0..((IF ArrLen(lv) < k THEN k ELSE ArrLen(lv)) - 1) |->
                        IF j \in DOMAIN lv THEN lv[j] ELSE 0]

\* the stats part of initialize
statsInitialize(s, k) ==
  IF s.isNil THEN s
  ELSE [s EXCEPT !.Theta = s.Delta, !.MaxLevel = -1, !.Levels = LevelsGrown(s.Levels, k)]

\* the stats part of C2 once stats.Levels[level] is known to exist
statsEnterLevel(s, l) ==
  IF s.isNil THEN s
  ELSE LET s1 == [s EXCEPT !.Levels[l] = @ + 1, !.Nodes = @ + 1]
           s2 == IF s1.Progress /\ l > s1.MaxLevel THEN [s1 EXCEPT !.MaxLevel = l] ELSE s1
       IN  IF s2.Progress /\ s2.Nodes >= s2.Theta THEN [s2 EXCEPT !.Theta = @ + s2.Delta] ELSE s2

\* "stats.Solutions++" before lvisit
statsSolution(s) == IF s.isNil THEN s ELSE [s EXCEPT !.Solutions = @ + 1]

\* "stats.Nodes++" at C6
statsTryAgain(s) == IF s.isNil THEN s ELSE [s EXCEPT !.Nodes = @ + 1]

\* ------------------------------------------------------------ driver ----

\* C1 [Initialize.]: validate, then build the tables
C1 ==
  /\ pc = "C1"
  /\ LET e == validate(items, options, secondary)
         t == initialize(items, options, secondary)
     IN  IF e # ErrNil
         THEN /\ pc' = "Done"
              /\ err' = e
              /\ UNCHANGED <<name, colors, llink, rlink, top, ulink, dlink, color,
                             level, state, cutoff, stats>>
         ELSE /\ pc' = "C2"
              /\ err' = err
              /\ stats' = statsInitialize(stats, t.n)
              /\ name' = t.name /\ colors' = t.colors
              /\ llink' = t.llink /\ rlink' = t.rlink /\ top' = t.top
              /\ ulink' = t.ulink /\ dlink' = t.dlink /\ color' = t.color
              /\ level' = t.level /\ state' = t.state /\ cutoff' = t.cutoff
  /\ UNCHANGED <<items, options, secondary, xccOptions, minimax, dims, removed, i, ops, pending, visits, stats0>>

\* C2 going on to C8 whatever the visitor answers
C2IgnoringAnswer ==
  /\ pc = "C2"
  /\ IF ~stats.isNil /\ level \notin DOMAIN stats.Levels
     THEN /\ pc' = "Panic"
          /\ err' = "panic: index out of range"
          /\ UNCHANGED <<llink, rlink, top, ulink, dlink, color, level, state, cutoff,
                         ops, pending, visits, stats>>
     ELSE IF rlink[0] = 0
     THEN \E resume \in BOOLEAN :
            LET r == lvisit(Mem)
            IN  /\ SetMem(r.mem)
                /\ stats' = statsSolution(statsEnterLevel(stats, level))
                /\ visits' = Append(visits,
                                    [sol |-> r.sol,
                                     st |-> [k \in 1..level |-> state[k - 1]],
                                     resume |-> resume,
                                     cutoff |-> r.mem.cutoff,
                                     ops |-> r.mem.ops])
                /\ pc' = "C8"
                /\ err' = err
     ELSE /\ pc' = "C3"
          /\ stats' = statsEnterLevel(stats, level)
          /\ UNCHANGED <<llink, rlink, top, ulink, dlink, color, level, state, cutoff,
                         ops, pending, visits, err>>
  /\ UNCHANGED <<items, options, secondary, xccOptions, minimax, dims, removed, name, colors, i, stats0>>

\* C2 returning an error of its own when the visitor answers false
C2HaltAsError ==
  /\ pc = "C2"
  /\ IF ~stats.isNil /\ level \notin DOMAIN stats.Levels
     THEN /\ pc' = "Panic"
          /\ err' = "panic: index out of range"
          /\ UNCHANGED <<llink, rlink, top, ulink, dlink, color, level, state, cutoff,
                         ops, pending, visits, stats>>
     ELSE IF rlink[0] = 0
     THEN \E resume \in BOOLEAN :
            LET r == lvisit(Mem)
            IN  /\ SetMem(r.mem)
                /\ stats' = statsSolution(statsEnterLevel(stats, level))
                /\ visits' = Append(visits,
                                    [sol |-> r.sol,
                                     st |-> [k \in 1..level |-> state[k - 1]],
                                     resume |-> resume,
                                     cutoff |-> r.mem.cutoff,
                                     ops |-> r.mem.ops])
                /\ pc' = IF resume THEN "C8" ELSE "Done"
                /\ err' = IF resume THEN err ELSE "halted"
     ELSE /\ pc' = "C3"
          /\ stats' = statsEnterLevel(stats, level)
          /\ UNCHANGED <<llink, rlink, top, ulink, dlink, color, level, state, cutoff,
                         ops, pending, visits, err>>
  /\ UNCHANGED <<items, options, secondary, xccOptions, minimax, dims, removed, name, colors, i, stats0>>

\* C2 [Enter level l.]: count the node (stats.Levels[level] out of range panics),
\* visit when no primary item is left, else go on to C3
C2 ==
  /\ pc = "C2"
  /\ IF ~stats.isNil /\ level \notin DOMAIN stats.Levels
     THEN /\ pc' = "Panic"
          /\ err' = "panic: index out of range"
          /\ UNCHANGED <<llink, rlink, top, ulink, dlink, color, level, state, cutoff,
                         ops, pending, visits, stats>>
     ELSE IF rlink[0] = 0
     THEN \E resume \in BOOLEAN :
            LET r == lvisit(Mem)
            IN  /\ SetMem(r.mem)
                /\ stats' = statsSolution(statsEnterLevel(stats, level))
                /\ visits' = Append(visits,
                                    [sol |-> r.sol,
                                     st |-> [k \in 1..level |-> state[k - 1]],
                                     resume |-> resume,
                                     cutoff |-> r.mem.cutoff,
                                     ops |-> r.mem.ops])
                /\ pc' = IF resume THEN "C8" ELSE "Done"
                /\ err' = IF resume THEN err ELSE ErrNil
     ELSE /\ pc' = "C3"
          /\ stats' = statsEnterLevel(stats, level)
          /\ UNCHANGED <<llink, rlink, top, ulink, dlink, color, level, state, cutoff,
                         ops, pending, visits, err>>
  /\ UNCHANGED <<items, options, secondary, xccOptions, minimax, dims, removed, name, colors, i, stats0>>

\* C3 [Choose i.]
C3 ==
  /\ pc = "C3"
  /\ i' = mrv(Mem)
  /\ pc' = "C4"
  /\ UNCHANGED <<items, options, secondary, xccOptions, minimax, dims, removed, err, name, colors,
                 llink, rlink, top, ulink, dlink, color, level, state, cutoff, ops, pending, visits,
                 stats, stats0>>

\* C4 [Cover i.]: cover(i); state[level] = dlink[i] (an index out of range panics)
C4 ==
  /\ pc = "C4"
  /\ LET m1 == cover(Called([Mem EXCEPT !.ops = @ + 1], <<"cover", i, level>>), i)
     IN  IF level \in DOMAIN state
         THEN /\ SetMem([m1 EXCEPT !.state[level] = m1.dlink[i]])
              /\ pc' = "C5"
              /\ err' = err
         ELSE /\ SetMem(m1)
              /\ pc' = "Panic"
              /\ err' = "panic: index out of range"
  /\ UNCHANGED <<items, options, secondary, xccOptions, minimax, dims, removed, name, colors, i, visits, stats, stats0>>

\* C5's loop: commit every other item of the option of node x, rightwards from p
RECURSIVE commitFrom(_, _, _)
commitFrom(m, x, p) ==
  IF p = x THEN m
  ELSE IF m.top[p] <= 0 THEN commitFrom(m, x, m.ulink[p])
  ELSE commitFrom(commit(m, p, m.top[p]), x, p + 1)

\* C5 [Try x_l.]
C5 ==
  /\ pc = "C5"
  /\ IF state[level] = i
     THEN /\ pc' = "C7"
          /\ UNCHANGED <<llink, rlink, top, ulink, dlink, color, level, state, cutoff, ops, pending>>
     ELSE /\ SetMem([commitFrom(Mem, state[level], state[level] + 1) EXCEPT !.level = @ + 1])
          /\ pc' = "C2"
  /\ UNCHANGED <<items, options, secondary, xccOptions, minimax, dims, removed, err, name, colors, i, visits,
                 stats, stats0>>

\* C6's loop turned round: uncommit in the order C5 committed, rightwards from x+1
RECURSIVE uncommitRightwards(_, _, _)
uncommitRightwards(m, x, p) ==
  IF p = x THEN m
  ELSE IF m.top[p] <= 0 THEN uncommitRightwards(m, x, m.ulink[p])
  ELSE uncommitRightwards(uncommit(m, p, m.top[p]), x, p + 1)

uncommitInCommitOrder(m, x, p) == uncommitRightwards(m, x, x + 1)

\* C6's loop: uncommit every other item of the option of node x, leftwards from p
RECURSIVE uncommitFrom(_, _, _)
uncommitFrom(m, x, p) ==
  IF p = x THEN m
  ELSE IF m.top[p] <= 0 THEN uncommitFrom(m, x, m.dlink[p])
  ELSE uncommitFrom(uncommit(m, p, m.top[p]), x, p - 1)

\* "for ; top[x] > 0; x++": the spacer at the right of x's option
RECURSIVE SpacerAfter(_, _)
SpacerAfter(tp, x) == IF tp[x] > 0 THEN SpacerAfter(tp, x + 1) ELSE x

\* the item the Exercise 7.2.2.1-83 block covers, if any
exercise83Item(m) ==
  LET x == SpacerAfter(m.top, m.state[0])
      j == m.top[x - 1]
  IN  IF j > n1 /\ m.color[x - 1] = 0 THEN {j} ELSE {}

\* Exercise 7.2.2.1-83 at level 0: cover a trailing uncoloured secondary item
exercise83(m) ==
  LET x == SpacerAfter(m.top, m.state[0])
      j == m.top[x - 1]
  IN  IF j > n1 /\ m.color[x - 1] = 0
      THEN cover(Called([m EXCEPT !.ops = @ + 1], <<"cover", j>>), j)
      ELSE m

\* C6 [Try again.]
C6 ==
  /\ pc = "C6"
  /\ LET m1 == uncommitFrom(Mem, state[level], state[level] - 1)
         m2 == IF xccOptions.Exercise83 /\ level = 0 THEN exercise83(m1) ELSE m1
     IN  /\ i' = m2.top[m2.state[level]]
         /\ SetMem([m2 EXCEPT !.state[level] = m2.dlink[m2.state[level]]])
         /\ removed' = IF xccOptions.Exercise83 /\ level = 0
                       THEN removed \cup exercise83Item(m1) ELSE removed
  /\ stats' = statsTryAgain(stats)
  /\ pc' = "C5"
  /\ UNCHANGED <<items, options, secondary, xccOptions, minimax, dims, err, name, colors, visits, stats0>>

\* C7 [Backtrack.]
C7 ==
  /\ pc = "C7"
  /\ SetMem(uncover(Reverted([Mem EXCEPT !.ops = @ + 1], <<"cover", i, level>>), i))
  /\ pc' = "C8"
  /\ UNCHANGED <<items, options, secondary, xccOptions, minimax, dims, removed, err, name, colors, i, visits,
                 stats, stats0>>

\* C8 [Leave level l.]
C8 ==
  /\ pc = "C8"
  /\ IF level = 0
     THEN /\ pc' = "Done"
          /\ err' = ErrNil
          /\ level' = level
     ELSE /\ pc' = "C6"
          /\ err' = err
          /\ level' = level - 1
  /\ UNCHANGED <<items, options, secondary, xccOptions, minimax, dims, removed, name, colors,
                 llink, rlink, top, ulink, dlink, color, state, cutoff, i, ops, pending, visits,
                 stats, stats0>>

Next == C1 \/ C2 \/ C3 \/ C4 \/ C5 \/ C6 \/ C7 \/ C8

\* ------------------------- the XCC of dancing_links_xcc.go (minimax bool) ----
\* validate, initialize, mrv, hide, cover, purify, commit, uncommit and the steps
\* C1, C3, C4, C5, C7, C8 of that file are the code modelled above; its unhide,
\* uncover and unpurify are the ones above without their Minimax branches, so
\* its runs keep xccOptions all false.  Its lvisit and C6 differ.

\* lvisit: the solution is built as above; "cutoff++" whatever minimax is
lvisitBool(m) == [sol |-> Solution(m), mem |-> [m EXCEPT !.cutoff = @ + 1]]

\* C2 [Enter level l.]
C2Bool ==
  /\ pc = "C2"
  /\ IF ~stats.isNil /\ level \notin DOMAIN stats.Levels
     THEN /\ pc' = "Panic"
          /\ err' = "panic: index out of range"
          /\ UNCHANGED <<llink, rlink, top, ulink, dlink, color, level, state, cutoff,
                         ops, pending, visits, stats>>
     ELSE IF rlink[0] = 0
     THEN \E resume \in BOOLEAN :
            LET r == lvisitBool(Mem)
            IN  /\ SetMem(r.mem)
                /\ stats' = statsSolution(statsEnterLevel(stats, level))
                /\ visits' = Append(visits,
                                    [sol |-> r.sol,
                                     st |-> [k \in 1..level |-> state[k - 1]],
                                     resume |-> resume,
                                     cutoff |-> r.mem.cutoff,
                                     ops |-> r.mem.ops])
                /\ pc' = IF resume THEN "C8" ELSE "Done"
                /\ err' = IF resume THEN err ELSE ErrNil
     ELSE /\ pc' = "C3"
          /\ stats' = statsEnterLevel(stats, level)
          /\ UNCHANGED <<llink, rlink, top, ulink, dlink, color, level, state, cutoff,
                         ops, pending, visits, err>>
  /\ UNCHANGED <<items, options, secondary, xccOptions, minimax, dims, removed, name, colors, i, stats0>>

\* the item that block covers, if any
exercise83BoolItem(m) ==
  LET x == SpacerAfter(m.top, m.state[0])
      j == m.top[x - 1]
  IN  IF j > n /\ m.color[x - 1] = 0 THEN {j} ELSE {}

\* "Exercise 7.2.2.1-83 performance improvement" at level 0, with the test j > n
exercise83Bool(m) ==
  LET x == SpacerAfter(m.top, m.state[0])
      j == m.top[x - 1]
  IN  IF j > n /\ m.color[x - 1] = 0
      THEN cover(Called([m EXCEPT !.ops = @ + 1], <<"cover", j>>), j)
      ELSE m

\* C6 [Try again.]
C6Bool ==
  /\ pc = "C6"
  /\ LET m1 == uncommitFrom(Mem, state[level], state[level] - 1)
         m2 == IF level = 0 THEN exercise83Bool(m1) ELSE m1
     IN  /\ i' = m2.top[m2.state[level]]
         /\ SetMem([m2 EXCEPT !.state[level] = m2.dlink[m2.state[level]]])
         /\ removed' = IF level = 0 THEN removed \cup exercise83BoolItem(m1) ELSE removed
  /\ stats' = statsTryAgain(stats)
  /\ pc' = "C5"
  /\ UNCHANGED <<items, options, secondary, xccOptions, minimax, dims, err, name, colors, visits, stats0>>

NextBool == C1 \/ C2Bool \/ C3 \/ C4 \/ C5 \/ C6Bool \/ C7 \/ C8

\* ------------------------------------------------------------ inputs ----
\* a reference "item:colour"
Colored(item, c) == item \o <<Colon>> \o c

ColorNames == {<<"A">>, <<"B">>}

\* the options over primary items a, b and secondary item x: a non-empty set
\* of primary items, then x absent, uncoloured or coloured
OptionUniverse ==
  {prim \o sec : prim \in {<< <<"a">> >>, << <<"b">> >>, << <<"a">>, <<"b">> >>},
                 sec \in {<<>>, << <<"x">> >>} \cup {<<Colored(<<"x">>, c)>> : c \in ColorNames}}

\* every list of at most MaxOptions options of the universe (the empty list included)
ExhaustiveInputs ==
  {[items |-> << <<"a">>, <<"b">> >>, secondary |-> << <<"x">> >>, options |-> o] :
     o \in UNION {[1..k -> OptionUniverse] : k \in 0..MaxOptions}}

\* inputs around validation: empty, repeated and unknown names
ValidationInputs ==
  {[items |-> its, secondary |-> sec, options |-> <<opt>>] :
     its \in {<<>>, << <<"a">> >>, << <<"a">>, <<"a">> >>, << <<"a">>, <<"b">> >>},
     sec \in {<<>>, << <<"x">> >>, << <<"a">> >>, << <<"x">>, <<"x">> >>},
     opt \in {<< <<"a">> >>, << <<"a">>, Colored(<<"x">>, <<"A">>) >>, << <<"a">>, <<"q">> >>,
              << <<"a">>, Colored(<<"q">>, <<"A">>) >>, << <<"b">>, <<"x">> >>}}

Str(c) == <<c>>

\* the toy problem of TestXCC (7.2.2.1-49)
ToyInput ==
  [items |-> <<Str("p"), Str("q"), Str("r")>>,
   secondary |-> <<Str("x"), Str("y")>>,
   options |-> << <<Str("p"), Str("q"), Str("x"), Colored(Str("y"), Str("A"))>>,
                  <<Str("p"), Str("r"), Colored(Str("x"), Str("A")), Str("y")>>,
                  <<Str("p"), Colored(Str("x"), Str("B"))>>,
                  <<Str("q"), Colored(Str("x"), Str("A"))>>,
                  <<Str("r"), Colored(Str("y"), Str("B"))>> >>]

\* a minimax case of TestXCCminimax: a, b with secondary x, y, z
MinimaxInput ==
  [items |-> <<Str("a"), Str("b")>>,
   secondary |-> <<Str("x"), Str("y"), Str("z")>>,
   options |-> << <<Str("a"), Str("x")>>, <<Str("a"), Str("y")>>,
                  <<Str("a"), Str("z")>>, <<Str("b"), Str("y")>> >>]

\* a, b with secondary x: both items offered with x uncoloured and with x:A
ColorClashInput ==
  [items |-> <<Str("a"), Str("b")>>,
   secondary |-> <<Str("x")>>,
   options |-> << <<Str("a"), Colored(Str("x"), Str("A"))>>, <<Str("a"), Str("x")>>,
                  <<Str("b"), Colored(Str("x"), Str("A"))>>, <<Str("b"), Str("x")>> >>]

\* a, b with secondary x: the later options of a and b do not use x:A
CutoffRiseInput ==
  [items |-> <<Str("a"), Str("b")>>,
   secondary |-> <<Str("x")>>,
   options |-> << <<Str("a"), Colored(Str("x"), Str("A"))>>, <<Str("a")>>,
                  <<Str("b")>>, <<Str("b"), Str("x")>> >>]

\* a, b, c with secondary x: two solutions share the smallest maximum option
LostMinimaxInput ==
  [items |-> <<Str("a"), Str("b"), Str("c")>>,
   secondary |-> <<Str("x")>>,
   options |-> << <<Str("a"), Colored(Str("x"), Str("A"))>>, <<Str("a"), Str("x")>>,
                  <<Str("b")>>, <<Str("b"), Str("c")>>,
                  <<Str("c"), Colored(Str("x"), Str("A"))>> >>]

\* a, b with secondary x: the last option of b is plain
SingleInput ==
  [items |-> <<Str("a"), Str("b")>>,
   secondary |-> <<Str("x")>>,
   options |-> << <<Str("a"), Colored(Str("x"), Str("A"))>>, <<Str("a"), Str("x")>>,
                  <<Str("b"), Colored(Str("x"), Str("A"))>>, <<Str("b")>> >>]

\* a, b, c without secondary items
ChainInput ==
  [items |-> <<Str("a"), Str("b"), Str("c")>>,
   secondary |-> <<>>,
   options |-> << <<Str("a")>>, <<Str("a"), Str("b")>>, <<Str("b"), Str("c")>>, <<Str("c")>> >>]

\* a, b, c with secondary x uncoloured and last in three options
Ex83OverrunInput ==
  [items |-> <<Str("a"), Str("b"), Str("c")>>,
   secondary |-> <<Str("x")>>,
   options |-> << <<Str("a"), Str("x")>>, <<Str("c"), Str("x")>>,
                  <<Str("a"), Str("b"), Str("x")>>, <<Str("b"), Str("c")>> >>]

\* a, b, c with secondary x: x:A in the first and third option, x plain in the second
SingleOverrunInput ==
  [items |-> <<Str("a"), Str("b"), Str("c")>>,
   secondary |-> <<Str("x")>>,
   options |-> << <<Str("a"), Colored(Str("x"), Str("A"))>>, <<Str("a"), Str("b"), Str("x")>>,
                  <<Str("b"), Str("c"), Colored(Str("x"), Str("A"))>>, <<Str("b"), Str("c")>> >>]

\* a, b with secondary x: primary item a carries a colour in the first option
ColoredPrimaryInput ==
  [items |-> <<Str("a"), Str("b")>>,
   secondary |-> <<Str("x")>>,
   options |-> << <<Colored(Str("a"), Str("A")), Str("b")>>, <<Str("a")>> >>]

\* a, b with secondary x: the first option names x twice, with two colours
RepeatedItemInput ==
  [items |-> <<Str("a"), Str("b")>>,
   secondary |-> <<Str("x")>>,
   options |-> << <<Str("a"), Colored(Str("x"), Str("A")), Colored(Str("x"), Str("B"))>>,
                  <<Str("b"), Colored(Str("x"), Str("B"))>>, <<Str("b")>> >>]

\* a and the item whose name is the empty string; the first option names both
EmptyNameInput ==
  [items |-> <<Str("a"), <<>>>>,
   secondary |-> <<>>,
   options |-> << <<Str("a"), <<>>>>, <<Str("a")>> >>]

ScenarioInputs ==
  {ToyInput, MinimaxInput, ColorClashInput, CutoffRiseInput, LostMinimaxInput,
   SingleInput, ChainInput, Ex83OverrunInput, SingleOverrunInput, ColoredPrimaryInput,
   RepeatedItemInput, EmptyNameInput}

\* every list of at most MaxOptions options over primary items a, b, c (no secondary)
PrimaryInputs ==
  {[items |-> <<Str("a"), Str("b"), Str("c")>>, secondary |-> <<>>, options |-> o] :
     o \in UNION {[1..k -> {<<Str("a")>>, <<Str("b")>>, <<Str("c")>>, <<Str("a"), Str("b")>>,
                            <<Str("a"), Str("c")>>, <<Str("b"), Str("c")>>,
                            <<Str("a"), Str("b"), Str("c")>>}] : k \in 1..MaxOptions}}

\* the lists of fewer than MaxOptions options of the universe
SmallInputs == {inp \in ExhaustiveInputs : Len(inp.options) < MaxOptions}

DefaultConfig == [Minimax |-> FALSE, MinimaxSingle |-> FALSE, Exercise83 |-> FALSE]

MinimaxConfig == [Minimax |-> TRUE, MinimaxSingle |-> FALSE, Exercise83 |-> FALSE]

MinimaxSingleConfig == [Minimax |-> TRUE, MinimaxSingle |-> TRUE, Exercise83 |-> FALSE]

AllConfigs == [Minimax : BOOLEAN, MinimaxSingle : BOOLEAN, Exercise83 : BOOLEAN]

\* stats == nil (the fields are never read)
NilStats ==
  [isNil |-> TRUE, Progress |-> FALSE, Delta |-> 0, Theta |-> 0, MaxLevel |-> 0,
   Levels |-> NoArr, Nodes |-> 0, Solutions |-> 0]

\* &ExactCoverStats{}
FreshStats == [NilStats EXCEPT !.isNil = FALSE]

\* &ExactCoverStats{Progress: true, Delta: 2}
ProgressStats == [FreshStats EXCEPT !.Progress = TRUE, !.Delta = 2]

\* the stats left by an earlier call (a, b / x / [a,b], stats fresh) that visited
\* one solution at level 1; TestXCC passes its stats to a second call likewise
ReusedStats ==
  [FreshStats EXCEPT !.MaxLevel = -1, !.Levels = [j \in 0..2 |-> IF j < 2 THEN 1 ELSE 0],
                     !.Nodes = 3, !.Solutions = 1]

UsedStats == {FreshStats, ProgressStats, ReusedStats}

\* len(items), len(secondary), len(options) and the sum of len(option)
InputDims(inp) ==
  [n1 |-> Len(inp.items), n2 |-> Len(inp.secondary),
   nOptions |-> Len(inp.options), nOptionItems |-> SumLen(inp.options)]

\* the state when XCC is entered with input inp, options xo and stats st
Entered(inp, xo, st) ==
  /\ items = inp.items /\ options = inp.options /\ secondary = inp.secondary
  /\ xccOptions = xo /\ minimax = FALSE /\ dims = InputDims(inp) /\ removed = {}
  /\ stats = st /\ stats0 = st
  /\ pc = "C1" /\ err = "running"
  /\ name = NoArr /\ colors = <<>>
  /\ llink = NoArr /\ rlink = NoArr /\ top = NoArr
  /\ ulink = NoArr /\ dlink = NoArr /\ color = NoArr
  /\ level = 0 /\ state = NoArr /\ cutoff = 0
  /\ i = 0 /\ ops = 0 /\ pending = NoCalls /\ visits = <<>>

SingleConfigInputs == ExhaustiveInputs \cup PrimaryInputs \cup ValidationInputs \cup ScenarioInputs

\* the inputs run with a stats object as well
StatsInputs == SmallInputs \cup ValidationInputs \cup ScenarioInputs

\* XCC entered under configuration xo: every input with stats nil, some with stats
EnteredUnder(xo) ==
  \/ \E inp \in SingleConfigInputs : Entered(inp, xo, NilStats)
  \/ \E inp \in StatsInputs : \E st \in UsedStats : Entered(inp, xo, st)

Init == \E inp \in StatsInputs : \E xo \in AllConfigs : \E st \in UsedStats \cup {NilStats} :
          Entered(inp, xo, st)

InitDefault == EnteredUnder(DefaultConfig)

InitMinimax == EnteredUnder(MinimaxConfig)

InitMinimaxSingle == EnteredUnder(MinimaxSingleConfig)

\* the XCC of dancing_links_xcc.go entered with minimax = mm
EnteredBool(inp, mm, st) ==
  /\ items = inp.items /\ options = inp.options /\ secondary = inp.secondary
  /\ xccOptions = DefaultConfig /\ minimax = mm /\ dims = InputDims(inp) /\ removed = {}
  /\ stats = st /\ stats0 = st
  /\ pc = "C1" /\ err = "running"
  /\ name = NoArr /\ colors = <<>>
  /\ llink = NoArr /\ rlink = NoArr /\ top = NoArr
  /\ ulink = NoArr /\ dlink = NoArr /\ color = NoArr
  /\ level = 0 /\ state = NoArr /\ cutoff = 0
  /\ i = 0 /\ ops = 0 /\ pending = NoCalls /\ visits = <<>>

InitBool == \E inp \in StatsInputs : \E mm \in BOOLEAN : \E st \in {NilStats, FreshStats} :
              EnteredBool(inp, mm, st)

\* XCC under every combination of Minimax, MinimaxSingle and Exercise83
Spec == Init /\ [][Next]_vars

\* XCC in default mode
SpecDefault == InitDefault /\ [][Next]_vars

\* XCC with Minimax on, MinimaxSingle off
SpecMinimax == InitMinimax /\ [][Next]_vars

\* XCC with Minimax and MinimaxSingle on
SpecMinimaxSingle == InitMinimaxSingle /\ [][Next]_vars

\* the XCC of dancing_links_xcc.go, minimax false or true
SpecBool == InitBool /\ [][NextBool]_vars

\* ------------------------------------------------- reference notions ----
\* the input seen as a problem: item of a reference, colour of a reference
RefItem(ref) == StripColor(ref)

RefHasColor(ref) == StrIndex(ref) > -1

IsPrimaryName(nm) == \E j \in 1..Len(items) : items[j] = nm

IsSecondaryName(nm) == \E j \in 1..Len(secondary) : secondary[j] = nm

\* option o (an index into options) refers to item nm
OptionHas(o, nm) == \E k \in 1..Len(options[o]) : RefItem(options[o][k]) = nm

\* the input is a well-formed XCC problem: every option has a primary item,
\* no option names an item twice, colours only on secondary items
WellFormed ==
  \A o \in 1..Len(options) :
    /\ \E k \in 1..Len(options[o]) : IsPrimaryName(RefItem(options[o][k]))
    /\ \A k1, k2 \in 1..Len(options[o]) :
         k1 # k2 => RefItem(options[o][k1]) # RefItem(options[o][k2])
    /\ \A k \in 1..Len(options[o]) :
         RefHasColor(options[o][k]) => IsSecondaryName(RefItem(options[o][k]))

\* two different options may be chosen together: whatever item they share is a
\* secondary item carrying the same named colour in both
Compatible(o1, o2) ==
  \A k1 \in 1..Len(options[o1]) : \A k2 \in 1..Len(options[o2]) :
    RefItem(options[o1][k1]) = RefItem(options[o2][k2]) =>
      /\ IsSecondaryName(RefItem(options[o1][k1]))
      /\ RefHasColor(options[o1][k1]) /\ RefHasColor(options[o2][k2])
      /\ ColorNameOf(options[o1][k1]) = ColorNameOf(options[o2][k2])

\* T, a set of option indices, covers every primary item exactly once without colour conflict
IsSolution(T) ==
  /\ T \subseteq 1..Len(options)
  /\ \A j \in 1..Len(items) : Cardinality({o \in T : OptionHas(o, items[j])}) = 1
  /\ \A o1, o2 \in T : o1 # o2 => Compatible(o1, o2)

AllSolutions == {T \in SUBSET (1..Len(options)) : IsSolution(T)}

\* the first node of option o in the table layout of initialize
RECURSIVE NodeStart(_)
NodeStart(o) == IF o = 1 THEN n + 2 ELSE NodeStart(o - 1) + Len(options[o - 1]) + 1

\* the option a node belongs to (0 for an index that is no node)
OptionOfNode(q) ==
  IF \E o \in 1..Len(options) : q \in NodeStart(o)..(NodeStart(o) + Len(options[o]) - 1)
  THEN CHOOSE o \in 1..Len(options) : q \in NodeStart(o)..(NodeStart(o) + Len(options[o]) - 1)
  ELSE 0

\* the options of visit v, by level, and as a set
VisitSeq(v) == [k \in 1..Len(v.st) |-> OptionOfNode(v.st[k])]

VisitSet(v) == {OptionOfNode(v.st[k]) : k \in 1..Len(v.st)}

\* the visitor has always answered true
AlwaysResumed == \A k \in 1..Len(visits) : visits[k].resume

Accepted == validate(items, options, secondary) = ErrNil

IsDefaultMode == ~xccOptions.Minimax /\ ~xccOptions.MinimaxSingle /\ ~xccOptions.Exercise83

\* ---- the reference depth-first search of C3
\* the options left for primary item nm once the options of chosen are taken
RefRemaining(nm, chosen) ==
  SelectSeq([o \in 1..Len(options) |-> o],
            LAMBDA o : /\ OptionHas(o, nm)
                       /\ \A k \in 1..Len(chosen) : chosen[k] # o /\ Compatible(o, chosen[k]))

\* the primary items no chosen option covers, in input order
RefActive(chosen) ==
  SelectSeq(items, LAMBDA nm : \A k \in 1..Len(chosen) : ~OptionHas(chosen[k], nm))

\* the first active item with the fewest remaining options
RefChoose(chosen) ==
  LET act == RefActive(chosen)
      cnt(j) == Len(RefRemaining(act[j], chosen))
      best == CHOOSE j \in 1..Len(act) :
                /\ \A k \in 1..Len(act) : cnt(j) <= cnt(k)
                /\ \A k \in 1..(j - 1) : cnt(k) > cnt(j)
  IN  act[best]

RECURSIVE RefDFS(_), RefTry(_, _)
RefDFS(chosen) ==
  IF RefActive(chosen) = <<>> THEN <<chosen>>
  ELSE RefTry(chosen, RefRemaining(RefChoose(chosen), chosen))

RefTry(chosen, opts) ==
  IF opts = <<>> THEN <<>>
  ELSE RefDFS(Append(chosen, Head(opts))) \o RefTry(chosen, Tail(opts))

\* ------------------------------------------------------------ claims ----
\* C1: in default mode, on a well-formed accepted input and with a visitor that
\* always answers true, XCC on returning has visited every exact cover with
\* compatible colours exactly once, and nothing else.
C1_VisitsExactlyTheSolutions ==
  (pc = "Done" /\ Accepted /\ WellFormed /\ IsDefaultMode /\ AlwaysResumed) =>
    /\ \A T \in AllSolutions :
         Cardinality({k \in 1..Len(visits) : VisitSet(visits[k]) = T}) = 1
    /\ \A k \in 1..Len(visits) :
         /\ VisitSet(visits[k]) \in AllSolutions
         /\ Cardinality(VisitSet(visits[k])) = Len(visits[k].st)

\* some set of options covers every primary item exactly once
CoversPrimaries(T) ==
  \A j \in 1..Len(items) : Cardinality({o \in T : OptionHas(o, items[j])}) = 1

\* C1 witness: a finished default search whose only solution takes two options
\* sharing a coloured secondary item, while another exact cover of the primary
\* items was passed over for its colour conflict
C1_Witness ==
  /\ pc = "Done" /\ Accepted /\ WellFormed /\ IsDefaultMode /\ AlwaysResumed
  /\ Len(visits) = 1 /\ Len(visits[1].st) = 2
  /\ \A o \in VisitSet(visits[1]) : \E k \in 1..Len(options[o]) : RefHasColor(options[o][k])
  /\ \E T \in SUBSET (1..Len(options)) : CoversPrimaries(T) /\ ~IsSolution(T)

\* C3: in default mode the visits so far are, in order and level by level, an
\* initial part of the reference depth-first search (first item of minimum
\* remaining options, options in input order), and all of it once the search ends.
C3_VisitOrderIsReferenceDFS ==
  (pc # "C1" /\ Accepted /\ WellFormed /\ IsDefaultMode) =>
    LET ref == RefDFS(<<>>)
    IN  /\ Len(visits) <= Len(ref)
        /\ \A k \in 1..Len(visits) : VisitSeq(visits[k]) = ref[k]
        /\ (pc = "Done" /\ AlwaysResumed) => Len(visits) = Len(ref)

\* C3 witness: the search for a, b with options {a,b}, {a}, {b} has visited
\* [{a,b}] and then [{a},{b}]
C3_Witness ==
  /\ IsDefaultMode /\ pc = "Done"
  /\ options = << <<Str("a"), Str("b")>>, <<Str("a")>>, <<Str("b")>> >>
  /\ Len(visits) = 2
  /\ VisitSeq(visits[1]) = <<1>> /\ VisitSeq(visits[2]) = <<2, 3>>

C2_VisitedAreSolutions ==
  (Accepted /\ WellFormed) =>
    \A k \in 1..Len(visits) :
      /\ VisitSet(visits[k]) \in AllSolutions
      /\ Cardinality(VisitSet(visits[k])) = Len(visits[k].st)

\* ---- the rejected inputs, as C5 lists them
\* the part of a reference before its first colon
BaseName(ref) ==
  LET L == CHOOSE L \in 0..Len(ref) :
             /\ \A k \in 1..L : ref[k] # Colon
             /\ L = Len(ref) \/ ref[L + 1] = Colon
  IN  [k \in 1..L |-> ref[k]]

EmptyItems == Len(items) = 0

DuplicatePrimary == \E j, k \in 1..Len(items) : j # k /\ items[j] = items[k]

DuplicateSecondary ==
  \E j \in 1..Len(secondary) :
    \/ \E k \in 1..Len(items) : secondary[j] = items[k]
    \/ \E k \in 1..Len(secondary) : k # j /\ secondary[j] = secondary[k]

UnknownItemInOption ==
  \E o \in 1..Len(options) : \E k \in 1..Len(options[o]) :
    ~IsPrimaryName(BaseName(options[o][k])) /\ ~IsSecondaryName(BaseName(options[o][k]))

Rejected == EmptyItems \/ DuplicatePrimary \/ DuplicateSecondary \/ UnknownItemInOption

TablesUnbuilt ==
  /\ name = NoArr /\ colors = <<>> /\ llink = NoArr /\ rlink = NoArr /\ top = NoArr
  /\ ulink = NoArr /\ dlink = NoArr /\ color = NoArr /\ state = NoArr

\* C5: once C1 has run on an input that is empty of items, repeats a primary or
\* secondary name, or refers to an unknown item, XCC has returned an error, and
\* has built no table, left stats as passed, made no driver step and called no visitor.
C5_RejectedInputReturnsError ==
  (pc # "C1" /\ Rejected) =>
    /\ pc = "Done" /\ err # ErrNil /\ err # "running"
    /\ TablesUnbuilt /\ stats = stats0 /\ ops = 0 /\ visits = <<>>

\* C5 witness: an option naming the undeclared item q (as "q:A") has been rejected
C5_Witness ==
  /\ pc = "Done" /\ UnknownItemInOption /\ ~stats0.isNil
  /\ ~EmptyItems /\ ~DuplicatePrimary /\ ~DuplicateSecondary
  /\ \E o \in 1..Len(options) : \E k \in 1..Len(options[o]) :
       options[o][k] = Colored(Str("q"), Str("A"))
  /\ err = "Option contains an item which is not an item or secondary item"

\* C6: a visit answered false is the last one: XCC has returned nil and has made
\* no cover, commit, uncommit or uncover call since that answer.
C6_HaltIsImmediate ==
  \A k \in 1..Len(visits) :
    ~visits[k].resume =>
      /\ k = Len(visits)
      /\ pc = "Done" /\ err = ErrNil
      /\ ops = visits[k].ops

\* C6 witness: the second solution was answered false, the first true
C6_Witness ==
  /\ Len(visits) = 2 /\ visits[1].resume /\ ~visits[2].resume /\ pc = "Done"

\* ---- completion statuses of C7
HaltedByVisitor == pc = "Done" /\ Len(visits) > 0 /\ ~visits[Len(visits)].resume

Completed == pc = "Done" /\ Accepted /\ AlwaysResumed

RECURSIVE MaxOfSet(_)
MaxOfSet(S) == IF S = {} THEN 0 ELSE CHOOSE x \in S : \A y \in S : y <= x

\* the maximum option index of a visited solution
MaxOption(v) == MaxOfSet(VisitSet(v))

\* the smallest maximum option index over all solutions of the input
MinMaxOption == CHOOSE x \in {MaxOfSet(T) : T \in AllSolutions} :
                  \A T \in AllSolutions : x <= MaxOfSet(T)

\* C8: with Minimax on and MinimaxSingle off, no visited solution has a larger
\* maximum option index than a solution visited before it (stated of the visits
\* that are solutions of the input).
C8_MaxOptionNeverIncreases ==
  (Accepted /\ WellFormed) =>
    \A j, k \in 1..Len(visits) :
      (j < k /\ VisitSet(visits[j]) \in AllSolutions /\ VisitSet(visits[k]) \in AllSolutions) =>
        MaxOption(visits[k]) <= MaxOption(visits[j])

\* C9: with Minimax on and MinimaxSingle off, a finished search has visited
\* exactly once every solution whose maximum option index is the smallest possible.
C9_EveryMinimaxSolutionVisitedOnce ==
  (pc = "Done" /\ Accepted /\ WellFormed /\ AlwaysResumed) =>
    \A T \in AllSolutions :
      MaxOfSet(T) = MinMaxOption =>
        Cardinality({k \in 1..Len(visits) : VisitSet(visits[k]) = T}) = 1

\* C10: with Minimax and MinimaxSingle on, the maximum option indices of the
\* visited solutions of the input strictly decrease, and the last visit of a
\* finished search of a solvable input attains the smallest possible maximum.
C10_SingleStrictlyDecreasesToMinimum ==
  (Accepted /\ WellFormed) =>
    /\ \A j, k \in 1..Len(visits) :
         (j < k /\ VisitSet(visits[j]) \in AllSolutions /\ VisitSet(visits[k]) \in AllSolutions) =>
           MaxOption(visits[k]) < MaxOption(visits[j])
    /\ (pc = "Done" /\ AlwaysResumed /\ AllSolutions # {}) =>
         /\ Len(visits) > 0
         /\ MaxOption(visits[Len(visits)]) = MinMaxOption

\* C11: the XCC of dancing_links_xcc.go called with minimax = true visits no
\* solution whose maximum option number is larger than that of a solution it
\* visited before.
C11_BoolMinimaxNeverIncreases ==
  (minimax /\ Accepted /\ WellFormed) =>
    \A j, k \in 1..Len(visits) :
      (j < k /\ VisitSet(visits[j]) \in AllSolutions /\ VisitSet(visits[k]) \in AllSolutions) =>
        MaxOption(visits[k]) <= MaxOption(visits[j])

\* C12: when XCC has returned from a search and stats is not nil, stats.Solutions is the number
\* of visitor calls of this call, also for a stats object used by an earlier call.
C12_SolutionsCountsVisits ==
  (pc = "Done" /\ Accepted /\ ~stats.isNil) => stats.Solutions = Len(visits)

\* C13: on an accepted input with at least one option and stats nil, in every
\* configuration, XCC goes on until it returns; in particular the driver is never
\* stopped by a run-time panic, after which there is no C8 and no return.
C13_RunsUntilItReturns ==
  (Accepted /\ Len(options) > 0 /\ stats.isNil) => pc # "Panic"

\* ---- list walks over the current tables
\* the items on the horizontal list of sentinel h, following rlink from q
RECURSIVE RightWalk(_, _, _)
RightWalk(h, q, k) ==
  IF q = h \/ k > n + 1 THEN {} ELSE {q} \cup RightWalk(h, rlink[q], k + 1)

ActivePrimaries == RightWalk(0, rlink[0], 0)

ActiveSecondaries == RightWalk(n + 1, rlink[n + 1], 0)

\* the nodes met walking dlink from header it until it is met again (at most size steps)
RECURSIVE DownWalk(_, _, _)
DownWalk(it, q, k) ==
  IF q = it \/ k > size THEN <<>> ELSE <<q>> \o DownWalk(it, dlink[q], k + 1)

ListNodes(it) == DownWalk(it, dlink[it], 0)

\* the driver has just left C2 or C8: a step from pc = "C2" or pc = "C8"
AfterC2orC8(P) == (pc \in {"C2", "C8"} /\ pc' \notin {pc, "Panic"}) => P

\* C14's condition: every active primary item's dlink walk comes back to its
\* header after exactly llen[i] nodes
PrimaryListsMatchLen ==
  \A it \in ActivePrimaries : Len(ListNodes(it)) = top[it]

\* C14: after every C2 and C8 transition, in every configuration, the dlink walk
\* from each active primary item's header returns to it after llen[i] nodes.
C14_ActivePrimaryWalkIsLen == [][AfterC2orC8(PrimaryListsMatchLen')]_vars

\* C15's condition: on the vertical list of every active secondary item, the
\* positive color values are all the same
NoDistinctColorsOnList ==
  \A it \in ActiveSecondaries :
    \A k1, k2 \in 1..Len(ListNodes(it)) :
      (color[ListNodes(it)[k1]] > 0 /\ color[ListNodes(it)[k2]] > 0) =>
        color[ListNodes(it)[k1]] = color[ListNodes(it)[k2]]

\* C15 as stated: after every C2 and C8 transition (the first C2 included), no two
\* nodes on the vertical list of an active secondary item carry distinct positive colours.
C15_NoDistinctColorsOnList == [][AfterC2orC8(NoDistinctColorsOnList')]_vars

\* the nodes of the options on the state stack, state[0..level-1]
ChosenNodes == UNION {{q \in DOMAIN top : \E j \in 1..Len(StateNodes(Mem, k)) : StateNodes(Mem, k)[j] = q} :
                      k \in 0..(level - 1)}

\* every secondary item given a colour by a chosen option has no node of that
\* colour value left on its vertical list (purify has set those to -1)
PurifiedColorIsOffList ==
  \A q \in ChosenNodes :
    (top[q] > n1 /\ color[q] > 0) =>
      \A k \in 1..Len(ListNodes(top[q])) : color[ListNodes(top[q])[k]] # color[q]

\* C15 amended: after every C2 and C8 transition, a secondary item coloured by
\* an option on the state stack has no node of that colour value on its
\* vertical list; nodes of other colours may stay on it.
C15_PurifiedColorIsOffList == [][AfterC2orC8(PurifiedColorIsOffList')]_vars

\* C15 witness: the driver has left C2 or C8 with a chosen option colouring x,
\* and x's list holds a node purified to -1 beside a node of another colour
C15_Witness ==
  /\ pc \in {"C3", "C6", "C8"} /\ level > 0
  /\ \E q \in ChosenNodes :
       /\ top[q] > n1 /\ color[q] > 0 /\ top[q] \in ActiveSecondaries
       /\ \E k \in 1..Len(ListNodes(top[q])) : color[ListNodes(top[q])[k]] = -1
       /\ \E k \in 1..Len(ListNodes(top[q])) :
            color[ListNodes(top[q])[k]] > 0 /\ color[ListNodes(top[q])[k]] # color[q]

\* ---- the state stack against the active primary list
\* state[0..lv-1] are nodes of options
StackHoldsNodes(lv) == \A k \in 0..(lv - 1) : state[k] \in (n + 2)..(size - 1) /\ top[state[k]] > 0

\* the items of the options identified by state[0..lv-1]
StackItems(lv) ==
  {top[q] : q \in UNION {{StateNodes(Mem, k)[j] : j \in 1..Len(StateNodes(Mem, k))} : k \in 0..(lv - 1)}}

\* state[0..lv-1] are pairwise distinct nodes and the active primary list holds
\* exactly the primary items in none of their options
StackMatchesActiveList(lv) ==
  /\ StackHoldsNodes(lv)
  /\ \A j, k \in 0..(lv - 1) : j # k => state[j] # state[k]
  /\ ActivePrimaries = {it \in 1..n1 : it \notin StackItems(lv)}

ColoredRefsAreSecondary ==
  \A k \in 1..Len(options) : \A j \in 1..Len(options[k]) :
    StrIndex(options[k][j]) > -1 =>
      \E s \in 1..Len(secondary) : secondary[s] = StripColor(options[k][j])

NoNodeBeyondCutoff ==
  \A it \in ActivePrimaries \cup ActiveSecondaries :
    \A k \in 1..Len(ListNodes(it)) : ListNodes(it)[k] <= cutoff

\* C17: with Minimax on, after every C2 and C8 transition no node with an index
\* greater than cutoff is on the vertical list of an item of an active
\* horizontal list, primary or secondary.
C17_NoNodeBeyondCutoff == [][xccOptions.Minimax => AfterC2orC8(NoNodeBeyondCutoff')]_vars

\* ---- the tables on completion against the tables as built
\* the tables initialize builds from the arguments
PostBuild == initialize(items, options, secondary)

\* the link arrays and top/llen are as built
LinksAsBuilt ==
  /\ llink = PostBuild.llink /\ rlink = PostBuild.rlink /\ top = PostBuild.top
  /\ ulink = PostBuild.ulink /\ dlink = PostBuild.dlink

C19_MinimaxLinksAsBuilt == (xccOptions.Minimax /\ Completed) => LinksAsBuilt

\* ---- cover undone by uncover
\* the six working arrays of memory m
Arrays(m) == <<m.llink, m.rlink, m.top, m.ulink, m.dlink, m.color>>

RECURSIVE PurifyCalls(_, _, _)
PurifyCalls(m, x, p) ==
  IF p = x THEN <<>>
  ELSE IF m.top[p] <= 0 THEN PurifyCalls(m, x, m.ulink[p])
  ELSE (IF m.color[p] > 0 THEN <<[mem |-> m, p |-> p]>> ELSE <<>>)
         \o PurifyCalls(commit(m, p, m.top[p]), x, p + 1)

\* the purify calls of the C5 step about to be taken
PurifyCallsNow ==
  IF pc = "C5" /\ state[level] # i THEN PurifyCalls(Mem, state[level], state[level] + 1) ELSE <<>>

BetweenSteps == pc \in {"C2", "C3", "C4", "C5", "C6", "C7", "C8"}

\* the nodes of options
OptionNodeSet == {q \in (n + 2)..(size - 1) : top[q] > 0}

\* node x is met on the dlink walk from the header of its item
OnList(x) == \E k \in 1..Len(ListNodes(top[x])) : ListNodes(top[x])[k] = x

ActiveItems == ActivePrimaries \cup ActiveSecondaries

\* the other nodes of the option of node x
Siblings(x) ==
  {y \in OptionNodeSet : y # x /\ OptionStart(top, y) = OptionStart(top, x)}

\* the number of options committed: at C6 the option of state[level] still is
CommittedLevels == IF pc = "C6" THEN level + 1 ELSE level

\* the nodes of the committed options
CommittedNodes ==
  UNION {{StateNodes(Mem, k)[j] : j \in 1..Len(StateNodes(Mem, k))} : k \in 0..(CommittedLevels - 1)}

\* node y's item was purified by a committed option with a colour other than
\* the colour the input gives y
Conflicts(y) ==
  \E z \in CommittedNodes :
    /\ top[z] = top[y] /\ PostBuild.color[z] > 0
    /\ PostBuild.color[z] # PostBuild.color[y]

Purified(j) == \E z \in CommittedNodes : top[z] = j /\ PostBuild.color[z] > 0

C23_StatsNeverStopSearch ==
  (IsDefaultMode /\ Accepted /\ WellFormed /\ Len(options) > 0 /\ ~stats.isNil) => pc # "Panic"

\* ---- colours and secondary items
\* C24: for every input validate accepts, once the tables are built every node
\* with color > 0 has its top in n1+1..n, and so every node C5 hands to purify
\* is a node of a secondary item.
C24_ColorOnlyOnSecondary ==
  (Accepted /\ pc \notin {"C1", "Panic"}) =>
    /\ \A q \in DOMAIN color : (q > n + 1 /\ color[q] > 0) => top[q] \in (n1 + 1)..n
    /\ \A k \in 1..Len(PurifyCallsNow) :
         PurifyCallsNow[k].mem.top[PurifyCallsNow[k].p] \in (n1 + 1)..n

\* ------------------------------------------------------ XCCWordCross ----
\* XCCWordCross (dancing_links_xcc_wordcross.go) with nil or zero XCCOptions. Its
\* validate also rejects an empty option list, its initialize sets cutoff to
\* size, and its C3 leaves the process when the item chosen above level 0 has a
\* name that does not start with H or V. With Minimax, MinimaxSingle,
\* Exercise83 and EnableSharpPreference off, next_item is mrv and steps C2 and
\* C4 to C8 do what those of XCC do.
validateWordCross(its, opts, sec) ==
  IF Len(its) = 0 THEN "items may not be empty"
  ELSE IF FirstRepeat(its, <<>>) # 0 THEN "item is not unique"
  ELSE IF FirstRepeat(sec, its) # 0 THEN "secondary item is not unique"
  ELSE IF Len(opts) = 0 THEN "options may not be empty"
  ELSE IF \E o \in 1..Len(opts) : \E k \in 1..Len(opts[o]) : ~Known(its, sec, StripColor(opts[o][k]))
       THEN "option contains an item which is not an item or secondary item"
  ELSE ErrNil

C1WordCross ==
  /\ pc = "C1"
  /\ LET e == validateWordCross(items, options, secondary)
         t == initialize(items, options, secondary)
     IN  IF e # ErrNil
         THEN /\ pc' = "Done"
              /\ err' = e
              /\ UNCHANGED <<name, colors, llink, rlink, top, ulink, dlink, color,
                             level, state, cutoff, stats>>
         ELSE /\ pc' = "C2"
              /\ err' = err
              /\ stats' = statsInitialize(stats, t.n)
              /\ name' = t.name /\ colors' = t.colors
              /\ llink' = t.llink /\ rlink' = t.rlink /\ top' = t.top
              /\ ulink' = t.ulink /\ dlink' = t.dlink /\ color' = t.color
              /\ level' = t.level /\ state' = t.state
              /\ cutoff' = TableSize(t.n, options)
  /\ UNCHANGED <<items, options, secondary, xccOptions, minimax, dims, removed, i, ops, pending, visits, stats0>>

\* "name[i][0:1] == "H" || name[i][0:1] == "V""
hvForced(it) == name[it][1] \in {"H", "V"}

\* C3 [Choose i.] of XCCWordCross: xcBranch[level] = !hvForced && level > 0, and
\* log.Fatal() when it is set; xcBranch is as long as state
C3WordCross ==
  /\ pc = "C3"
  /\ IF level \notin DOMAIN state
     THEN /\ pc' = "Panic" /\ err' = "panic: index out of range" /\ i' = i
     ELSE IF xccOptions.Exercise83 /\ level = 0
     THEN /\ i' = 1 /\ pc' = "C4" /\ err' = err
     ELSE /\ i' = mrv(Mem)
          /\ IF Len(name[mrv(Mem)]) = 0
             THEN pc' = "Panic" /\ err' = "panic: slice bounds out of range"
             ELSE IF ~hvForced(mrv(Mem)) /\ level > 0
             THEN pc' = "Exit" /\ err' = "exit status 1"
             ELSE pc' = "C4" /\ err' = err
  /\ UNCHANGED <<items, options, secondary, xccOptions, minimax, dims, removed, name, colors,
                 llink, rlink, top, ulink, dlink, color, level, state, cutoff, ops, pending, visits,
                 stats, stats0>>

\* unhide of XCCWordCross: a downward link past cutoff is retargeted to the
\* header in every mode, and only for a node that is put back
unhideNodeWordCross(m, q) ==
  LET x == m.top[q]
      retarget == m.dlink[q] > m.cutoff
      m1 == IF retarget THEN [m EXCEPT !.dlink[q] = x] ELSE m
      d == IF retarget THEN x ELSE m.dlink[q]
      u == m1.ulink[q]
  IN  IF m.color[q] >= 0
      THEN [m1 EXCEPT !.dlink[u] = q, !.ulink[d] = q, !.top[x] = @ + 1]
      ELSE m

RECURSIVE unhideFromWordCross(_, _, _)
unhideFromWordCross(m, p, q) ==
  IF q = p THEN m
  ELSE IF m.top[q] <= 0 THEN unhideFromWordCross(m, p, m.dlink[q])
  ELSE unhideFromWordCross(unhideNodeWordCross(m, q), p, q - 1)

unhideWordCross(m, p) == unhideFromWordCross(m, p, p - 1)

\* a cut that removes nothing
cutNothing(m, it, q) == m

\* "for q > cutoff": cut the nodes past cutoff off the bottom of item it's list
RECURSIVE cutBottom(_, _, _)
cutBottom(m, it, q) ==
  IF q > m.cutoff
  THEN LET u == m.ulink[q]
       IN  cutBottom([m EXCEPT !.dlink[u] = it, !.ulink[it] = u, !.top[it] = @ - 1], it, u)
  ELSE m

RECURSIVE uncoverFromWordCross(_, _, _)
uncoverFromWordCross(m, it, p) ==
  IF p = it THEN m
  ELSE LET m1 == unhideWordCross(m, p) IN uncoverFromWordCross(m1, it, m1.ulink[p])

uncoverWordCross(m, it) ==
  LET m0 == IF xccOptions.Minimax THEN cutBottom(m, it, m.ulink[it]) ELSE m
      l == m0.llink[it]
      r == m0.rlink[it]
      m1 == [m0 EXCEPT !.rlink[l] = it, !.llink[r] = it]
  IN  uncoverFromWordCross(m1, it, m1.ulink[it])

RECURSIVE unpurifyFromWordCross(_, _, _, _)
unpurifyFromWordCross(m, c, it, q) ==
  IF q = it THEN m
  ELSE LET m1 == IF m.color[q] < 0 THEN [m EXCEPT !.color[q] = c] ELSE unhideWordCross(m, q)
       IN  unpurifyFromWordCross(m1, c, it, m1.ulink[q])

unpurifyWordCross(m, p) ==
  LET it == m.top[p]
      m0 == IF xccOptions.Minimax THEN cutBottom(m, it, m.ulink[it]) ELSE m
  IN  unpurifyFromWordCross(m0, m0.color[p], it, m0.ulink[it])

uncommitWordCross(m, p, j) ==
  LET m0 == [m EXCEPT !.ops = @ + 1]
      m1 == IF m0.color[p] = 0 THEN uncoverWordCross(Reverted(m0, <<"cover", j>>), j) ELSE m0
  IN  IF m1.color[p] > 0 THEN unpurifyWordCross(Reverted(m1, <<"purify", p>>), p) ELSE m1

\* the uncommit loop of C6 and of the forced unwind
RECURSIVE uncommitFromWordCross(_, _, _)
uncommitFromWordCross(m, x, p) ==
  IF p = x THEN m
  ELSE IF m.top[p] <= 0 THEN uncommitFromWordCross(m, x, m.dlink[p])
  ELSE uncommitFromWordCross(uncommitWordCross(m, p, m.top[p]), x, p - 1)

\* sitemColors walks each option cyclically, beginning at state[k]
CyclicNodes(m, k) ==
  LET nodes == StateNodes(m, k)
      at == m.state[k] - OptionStart(m.top, m.state[k]) + 1
  IN  SubSeq(nodes, at, Len(nodes)) \o SubSeq(nodes, 1, at - 1)

RECURSIVE sitemColors(_, _, _)
sitemColors(map, m, k) ==
  IF k >= m.level THEN map
  ELSE sitemColors(SitemColorNodes(map, m, CyclicNodes(m, k)), m, k + 1)

\* the options handed to the visitor
SolutionWordCross(m) ==
  LET sc == sitemColors(EmptyMap, m, 0)
      item(q) == name[m.top[q]]
      shown(q) == IF item(q) \in DOMAIN sc THEN item(q) \o <<Colon>> \o sc[item(q)] ELSE item(q)
  IN  [k \in 1..m.level |->
         LET nodes == StateNodes(m, k - 1)
         IN  [j \in 1..Len(nodes) |-> shown(nodes[j])]]

\* "Iterate over the items of the visited options": cut each chosen item's list
RECURSIVE cutState(_, _)
cutState(m, k) ==
  IF k >= m.level THEN m
  ELSE LET x == m.top[m.state[k]]
       IN  cutState(cutBottom(m, x, m.ulink[x]), k + 1)

\* the forced unwind of MinimaxSingle: uncommit, uncover and level-- down to kMax
RECURSIVE forcedUnwindWordCross(_, _, _)
forcedUnwindWordCross(m, k, kMax) ==
  IF k < kMax THEN m
  ELSE LET it == m.top[m.state[k]]
           m1 == uncommitFromWordCross(m, m.state[k], m.state[k] - 1)
           m2 == uncoverWordCross(Reverted([m1 EXCEPT !.ops = @ + 1], <<"cover", it, k>>), it)
       IN  forcedUnwindWordCross([m2 EXCEPT !.level = @ - 1], k - 1, kMax)

\* the minimax part of lvisit, run only when the visitor has answered true
lvisitMinimaxWordCross(m) ==
  LET pp == CutoffSpacer(m, PMax(m, 0, 0))
      m1 == IF pp # m.cutoff THEN cutState([m EXCEPT !.cutoff = pp], 0) ELSE m
  IN  IF xccOptions.MinimaxSingle
      THEN forcedUnwindWordCross(m1, m1.level - 1, LMax(m))
      ELSE m1

lvisitWordCross(m, resume) ==
  [sol |-> SolutionWordCross(m),
   mem |-> IF resume /\ xccOptions.Minimax THEN lvisitMinimaxWordCross(m) ELSE m]

\* C2 [Enter level l.] of XCCWordCross
C2WordCross ==
  /\ pc = "C2"
  /\ IF ~stats.isNil /\ level \notin DOMAIN stats.Levels
     THEN /\ pc' = "Panic"
          /\ err' = "panic: index out of range"
          /\ UNCHANGED <<llink, rlink, top, ulink, dlink, color, level, state, cutoff,
                         ops, pending, visits, stats>>
     ELSE IF rlink[0] = 0
     THEN \E resume \in BOOLEAN :
            LET r == lvisitWordCross(Mem, resume)
            IN  /\ SetMem(r.mem)
                /\ stats' = statsSolution(statsEnterLevel(stats, level))
                /\ visits' = Append(visits,
                                    [sol |-> r.sol,
                                     st |-> [k \in 1..level |-> state[k - 1]],
                                     resume |-> resume,
                                     cutoff |-> r.mem.cutoff,
                                     ops |-> r.mem.ops])
                /\ pc' = IF resume THEN "C8" ELSE "Done"
                /\ err' = IF resume THEN err ELSE ErrNil
     ELSE /\ pc' = "C3"
          /\ stats' = statsEnterLevel(stats, level)
          /\ UNCHANGED <<llink, rlink, top, ulink, dlink, color, level, state, cutoff,
                         ops, pending, visits, err>>
  /\ UNCHANGED <<items, options, secondary, xccOptions, minimax, dims, removed, name, colors, i, stats0>>

\* C6 [Try again.] of XCCWordCross, with the same Exercise 83 block as XCC
C6WordCross ==
  /\ pc = "C6"
  /\ LET m1 == uncommitFromWordCross(Mem, state[level], state[level] - 1)
         m2 == IF xccOptions.Exercise83 /\ level = 0 THEN exercise83(m1) ELSE m1
     IN  /\ i' = m2.top[m2.state[level]]
         /\ SetMem([m2 EXCEPT !.state[level] = m2.dlink[m2.state[level]]])
         /\ removed' = IF xccOptions.Exercise83 /\ level = 0
                       THEN removed \cup exercise83Item(m1) ELSE removed
  /\ stats' = statsTryAgain(stats)
  /\ pc' = "C5"
  /\ UNCHANGED <<items, options, secondary, xccOptions, minimax, dims, err, name, colors, visits, stats0>>

\* C7 [Backtrack.] of XCCWordCross
C7WordCross ==
  /\ pc = "C7"
  /\ SetMem(uncoverWordCross(Reverted([Mem EXCEPT !.ops = @ + 1], <<"cover", i, level>>), i))
  /\ pc' = "C8"
  /\ UNCHANGED <<items, options, secondary, xccOptions, minimax, dims, removed, err, name, colors, i, visits,
                 stats, stats0>>

NextWordCross ==
  C1WordCross \/ C2WordCross \/ C3WordCross \/ C4 \/ C5 \/ C6WordCross \/ C7WordCross \/ C8

\* the options over primary items p, q and secondary item x
WordCrossOptions(p, q) ==
  {prim \o sec : prim \in {<<p>>, <<q>>, <<p, q>>},
                 sec \in {<<>>, << <<"x">> >>, <<Colored(<<"x">>, <<"A">>)>>}}

\* every list of at most MaxOptions options over two primary items named among
\* H, V, a, b, with secondary item x
WordCrossInputs ==
  UNION {{[items |-> <<pq[1], pq[2]>>, secondary |-> << <<"x">> >>, options |-> o] :
            o \in UNION {[1..k -> WordCrossOptions(pq[1], pq[2])] : k \in 0..MaxOptions}} :
         pq \in {<<Str("H"), Str("V")>>, <<Str("H"), Str("a")>>,
                  <<Str("a"), Str("H")>>, <<Str("a"), Str("b")>>}}

InitWordCross == \E inp \in WordCrossInputs : Entered(inp, DefaultConfig, NilStats)

SpecWordCross == InitWordCross /\ [][NextWordCross]_vars

AcceptedWordCross == validateWordCross(items, options, secondary) = ErrNil

\* C25: XCCWordCross in default mode, on a well-formed input its validation
\* accepts, is never cut short by the process exit at C3.
C25_WordCrossNeverExits ==
  (AcceptedWordCross /\ WellFormed) => pc # "Exit"

\* ---- the choice of mrv
\* the active primary list in list order, following rlink from q
RECURSIVE RightSeq(_, _)
RightSeq(q, k) ==
  IF q = 0 \/ k > n + 1 THEN <<>> ELSE <<q>> \o RightSeq(rlink[q], k + 1)

ActivePrimarySeq == RightSeq(rlink[0], 0)

\* item it is the first item of the active primary list with the least llen
FirstOfLeastLen(it) ==
  \E k \in 1..Len(ActivePrimarySeq) :
    /\ ActivePrimarySeq[k] = it
    /\ \A j \in 1..Len(ActivePrimarySeq) : top[it] <= top[ActivePrimarySeq[j]]
    /\ \A j \in 1..(k - 1) : top[ActivePrimarySeq[j]] # top[it]

ForcedUnwindStep ==
  /\ xccOptions.Minimax /\ xccOptions.MinimaxSingle
  /\ pc = "C2" /\ pc' = "C8" /\ level' < level

\* C27: with Minimax and MinimaxSingle on, after the forced unwind of a visit
\* the active primary list holds exactly the primary items in none of the
\* options of state[0..level-1], level being the level the unwind ended at.
C27_ForcedUnwindRestoresActiveList ==
  [][ForcedUnwindStep => (ActivePrimaries = {it \in 1..n1 : it \notin StackItems(level)})']_vars

\* --------------------------------------------------- table sizes ----
\* initialize's sizing of the tables for an input given by its lengths alone:
\* the lists and the tables are not materialised, only size and cutoff are
\* "size = n + 1 + nOptions + 1 + nOptionItems"; the nodes are 0..size-1
tableSize(d) == d.n1 + d.n2 + 1 + d.nOptions + 1 + d.nOptionItems

\* the lengths tried for each part of the input
Lengths == {1, 10, 1000, 20000}

AllDims == [n1 : Lengths, n2 : {0} \cup Lengths, nOptions : Lengths, nOptionItems : Lengths]

\* XCC entered with an input of lengths d
EnteredSized(d) ==
  /\ items = <<>> /\ options = <<>> /\ secondary = <<>>
  /\ xccOptions = MinimaxConfig /\ minimax = FALSE /\ dims = d /\ removed = {}
  /\ stats = NilStats /\ stats0 = NilStats
  /\ pc = "C1" /\ err = "running"
  /\ name = NoArr /\ colors = <<>>
  /\ llink = NoArr /\ rlink = NoArr /\ top = NoArr
  /\ ulink = NoArr /\ dlink = NoArr /\ color = NoArr
  /\ level = 0 /\ state = NoArr /\ cutoff = 0
  /\ i = 0 /\ ops = 0 /\ pending = NoCalls /\ visits = <<>>

\* the end of initialize: "level = 0", "cutoff = math.MaxInt16"
C1Sized ==
  /\ pc = "C1"
  /\ pc' = "C2"
  /\ level' = 0
  /\ cutoff' = MaxInt16
  /\ UNCHANGED <<items, options, secondary, xccOptions, minimax, dims, removed, err, name, colors,
                 llink, rlink, top, ulink, dlink, color, state, i, ops, pending, visits, stats, stats0>>

InitSized == \E d \in AllDims : EnteredSized(d)

SpecSized == InitSized /\ [][C1Sized]_vars

\* C28: after initialize, cutoff is greater than every node index, cutoff >
\* size - 1, whatever the size of the input.
C28_CutoffAboveEveryNode ==
  (pc = "C2" /\ level = 0) => cutoff > tableSize(dims) - 1

\* ---- the permanent cover of Exercise 83
\* C29: with Exercise83 on, an item j covered by the Exercise 83 block of C6 is
\* never again in the active secondary list, and no option containing j is
\* committed at any level, so none appears in a visited solution.
C29_Exercise83RemovesForGood ==
  (xccOptions.Exercise83 /\ Accepted /\ WellFormed /\ BetweenSteps) =>
    \A j \in removed :
      /\ j \notin ActiveSecondaries
      /\ \A q \in CommittedNodes : top[q] # j

\* ---- the spacers of the built table
\* the arrays are those initialize has just built
JustBuilt == Accepted /\ pc = "C2" /\ level = 0 /\ ops = 0

\* index of the spacer written after the first k options (k = 0: the one at n+1)
SpacerAt(k) == n + 1 + k + SumLen(SubSeq(options, 1, k))

FirstNode(k) == SpacerAt(k - 1) + 1
LastNode(k) == SpacerAt(k) - 1
NonEmptyOptions == {k \in 1..Len(options) : Len(options[k]) > 0}

\* the spacers around each option point at its last and its first node
SpacersLinkOptions ==
  \A k \in NonEmptyOptions :
    /\ dlink[FirstNode(k) - 1] = LastNode(k)
    /\ ulink[LastNode(k) + 1] = FirstNode(k)

NodesHavePositiveTop ==
  \A k \in NonEmptyOptions : \A x \in FirstNode(k)..LastNode(k) : top[x] > 0

NamedItems ==
  /\ \A j \in 1..Len(items) : items[j] # <<>>
  /\ \A j \in 1..Len(secondary) : secondary[j] # <<>>

TablesBuilt == Accepted /\ pc \in {"C2", "C3", "C4", "C5", "C6", "C7", "C8", "Done"}

\* the dlink walk from header it meets nodes of strictly increasing index
IncreasingDown(it) ==
  LET L == ListNodes(it)
  IN  \A k \in 1..Len(L) : L[k] > (IF k = 1 THEN it ELSE L[k - 1])

\* C31: in every reachable state and every configuration, walking any item's
\* vertical list downward from its header visits nodes in strictly increasing
\* index order.
C31_VerticalListsIncrease ==
  TablesBuilt => \A it \in 1..n : IncreasingDown(it)

\* the nodes created for item it
NodesOf(it) == {q \in OptionNodeSet : top[q] = it}

\* C31 witness: under Minimax, after a visit has lowered cutoff, some item's
\* list still holds two nodes or more but fewer than were built for it
C31_Witness ==
  /\ TablesBuilt /\ xccOptions.Minimax /\ cutoff < MaxInt16 /\ pc = "C6"
  /\ \E it \in 1..n :
       /\ Len(ListNodes(it)) >= 2
       /\ Len(ListNodes(it)) < Cardinality(NodesOf(it))

\* ---- the colours of the chosen options at a visit
\* lvisit is about to run: C2 is entered with every primary item covered
AtVisit == Accepted /\ pc = "C2" /\ rlink[0] = 0

\* the nodes of item s in the options of state[0..level-1]
ChosenNodesOf(s) == {q \in CommittedNodes : top[q] = s}

\* at most one chosen node of s has a positive colour, and beside such a node
\* every other chosen node of s has colour -1
OneColoredNode(s) ==
  /\ Cardinality({q \in ChosenNodesOf(s) : color[q] > 0}) <= 1
  /\ \A q \in ChosenNodesOf(s) :
       color[q] > 0 => \A r \in ChosenNodesOf(s) \ {q} : color[r] = -1

NoRepeatedItem ==
  \A o \in 1..Len(options) : \A k1, k2 \in 1..Len(options[o]) :
    k1 # k2 => RefItem(options[o][k1]) # RefItem(options[o][k2])

C33_LevelBelowOptionCount ==
  (Accepted /\ pc \in {"C4", "C5", "C6"}) => level < Len(options)

\* ---- XCCWordCross with Minimax on
\* the primary item names of an input prefixed with H, so that C3 finds every
\* chosen item forced
HVRef(inp, ref) ==
  IF \E k \in 1..Len(inp.items) : inp.items[k] = StripColor(ref)
  THEN <<"H">> \o ref ELSE ref

HVInput(inp) ==
  [items |-> [k \in 1..Len(inp.items) |-> <<"H">> \o inp.items[k]],
   secondary |-> inp.secondary,
   options |-> [o \in 1..Len(inp.options) |->
                  [k \in 1..Len(inp.options[o]) |-> HVRef(inp, inp.options[o][k])]]]

WordCrossMinimaxInputs == WordCrossInputs \cup {HVInput(inp) : inp \in ScenarioInputs}

InitWordCrossMinimax ==
  \E inp \in WordCrossMinimaxInputs : \E xo \in {MinimaxConfig, MinimaxSingleConfig} :
    Entered(inp, xo, NilStats)

\* XCCWordCross with Minimax on, MinimaxSingle off or on
SpecWordCrossMinimax == InitWordCrossMinimax /\ [][NextWordCross]_vars

\* every primary item is named H... or V..., so C3 never ends the process
AllForced == \A k \in 1..Len(items) : Len(items[k]) > 0 /\ items[k][1] \in {"H", "V"}

\* the tables are built for an input on which the search is not aborted at C3
WordCrossRuns == AcceptedWordCross /\ AllForced /\ pc # "C1"

VisitsNeverIncrease ==
  \A j, k \in 1..Len(visits) : j < k => MaxOption(visits[k]) <= MaxOption(visits[j])

\* C34: in XCCWordCross with Minimax on (MinimaxSingle off or on), on inputs
\* where the search is not aborted at C3, cutoff never increases, each visited
\* solution has a maximum option index no greater than that of every solution
\* visited earlier, and no option beyond cutoff is committed at C5.
C34_WordCrossMinimaxNeverIncreases ==
  [][WordCrossRuns =>
       /\ cutoff' <= cutoff
       /\ VisitsNeverIncrease'
       /\ (pc = "C5" /\ pc' = "C2") => state[level] <= cutoff]_vars

\* C34 witness: the second visit of a run has lowered cutoff again
C34_Witness ==
  /\ WordCrossRuns /\ xccOptions.Minimax
  /\ Len(visits) >= 2
  /\ visits[2].cutoff < visits[1].cutoff
  /\ MaxOption(visits[2]) < MaxOption(visits[1])

\* ---- the length of stats.Levels
\* C35: when stats is not nil and its Levels is nil on entry, at every C2 the
\* index level is within the bounds of stats.Levels, which initialize has made
\* at least n long.
C35_LevelWithinStatsLevels ==
  (Accepted /\ ~stats0.isNil /\ stats0.Levels = NoArr /\ pc = "C2") =>
    /\ ArrLen(stats.Levels) >= n
    /\ level \in DOMAIN stats.Levels

\* ---- the vertical rings
\* the memories after each commit of C5's loop, from node p of the option of x
RECURSIVE CommitMems(_, _, _)
CommitMems(m, x, p) ==
  IF p = x THEN <<>>
  ELSE IF m.top[p] <= 0 THEN CommitMems(m, x, m.ulink[p])
  ELSE LET m1 == commit(m, p, m.top[p]) IN <<m1>> \o CommitMems(m1, x, p + 1)

\* the memories after each uncommit of C6's loop
RECURSIVE UncommitMems(_, _, _)
UncommitMems(m, x, p) ==
  IF p = x THEN <<>>
  ELSE IF m.top[p] <= 0 THEN UncommitMems(m, x, m.dlink[p])
  ELSE LET m1 == uncommit(m, p, m.top[p]) IN <<m1>> \o UncommitMems(m1, x, p - 1)

\* the memories between the primitive calls of the step the driver is about to
\* take, the present one first
MemsOfStep ==
  <<Mem>> \o
  (IF pc = "C5" /\ state[level] # i THEN CommitMems(Mem, state[level], state[level] + 1)
   ELSE IF pc = "C6" THEN UncommitMems(Mem, state[level], state[level] - 1)
   ELSE <<>>)

\* the nodes met walking dlink in memory m from header it back to it
RECURSIVE DownWalkIn(_, _, _, _)
DownWalkIn(m, it, q, k) ==
  IF q = it \/ k > size THEN <<>> ELSE <<q>> \o DownWalkIn(m, it, m.dlink[q], k + 1)

\* in memory m the list of header it is a consistent doubly linked ring of llen[it] nodes
RingOfLen(m, it) ==
  LET L == DownWalkIn(m, it, m.dlink[it], 0)
      ring == {it} \cup {L[k] : k \in 1..Len(L)}
  IN  /\ \A x \in ring : m.ulink[m.dlink[x]] = x /\ m.dlink[m.ulink[x]] = x
      /\ Len(L) = m.top[it]

RECURSIVE CoverCalls(_, _, _)
CoverCalls(m, x, p) ==
  IF p = x THEN <<>>
  ELSE IF m.top[p] <= 0 THEN CoverCalls(m, x, m.ulink[p])
  ELSE (IF m.color[p] = 0 THEN <<[mem |-> m, j |-> m.top[p], cover |-> TRUE]>> ELSE <<>>)
         \o CoverCalls(commit(m, p, m.top[p]), x, p + 1)

\* the uncover calls of C6's loop
RECURSIVE UncoverCalls(_, _, _)
UncoverCalls(m, x, p) ==
  IF p = x THEN <<>>
  ELSE IF m.top[p] <= 0 THEN UncoverCalls(m, x, m.dlink[p])
  ELSE (IF m.color[p] = 0 THEN <<[mem |-> m, j |-> m.top[p], cover |-> FALSE]>> ELSE <<>>)
         \o UncoverCalls(uncommit(m, p, m.top[p]), x, p - 1)

\* the cover call of the Exercise 83 block of C6
Exercise83Calls ==
  LET m1 == uncommitFrom(Mem, state[level], state[level] - 1)
  IN  IF xccOptions.Exercise83 /\ level = 0 /\ exercise83Item(m1) # {}
      THEN <<[mem |-> m1, j |-> CHOOSE j \in exercise83Item(m1) : TRUE, cover |-> TRUE]>>
      ELSE <<>>

\* the uncover calls of the forced unwind of lvisit
RECURSIVE UnwindCalls(_, _, _)
UnwindCalls(m, k, lMax) ==
  IF k < lMax THEN <<>>
  ELSE <<[mem |-> m, j |-> m.top[m.state[k]], cover |-> FALSE]>>
         \o UnwindCalls([uncover([m EXCEPT !.ops = @ + 1], m.top[m.state[k]]) EXCEPT !.level = @ - 1],
                        k - 1, lMax)

LvisitCalls ==
  LET pp == CutoffSpacer(Mem, PMax(Mem, 0, 0))
      m1 == pruneState([Mem EXCEPT !.cutoff = pp], 0)
  IN  IF xccOptions.Minimax /\ xccOptions.MinimaxSingle /\ pp # cutoff
      THEN UnwindCalls(m1, m1.level - 1, LMax(Mem))
      ELSE <<>>

\* the cover and uncover calls of the step the driver is about to take
CallsOfStep ==
  IF pc = "C2" /\ rlink[0] = 0 /\ (stats.isNil \/ level \in DOMAIN stats.Levels) THEN LvisitCalls
  ELSE IF pc = "C4" THEN <<[mem |-> Mem, j |-> i, cover |-> TRUE]>>
  ELSE IF pc = "C5" /\ state[level] # i THEN CoverCalls(Mem, state[level], state[level] + 1)
  ELSE IF pc = "C6"
       THEN UncoverCalls(Mem, state[level], state[level] - 1) \o Exercise83Calls
  ELSE IF pc = "C7" THEN <<[mem |-> Mem, j |-> i, cover |-> FALSE]>>
  ELSE <<>>

\* item j is in its horizontal list in memory m
RECURSIVE RightWalkIn(_, _, _, _)
RightWalkIn(m, h, q, k) ==
  IF q = h \/ k > n + 1 THEN {} ELSE {q} \cup RightWalkIn(m, h, m.rlink[q], k + 1)

ActiveIn(m, j) ==
  IF j <= n1 THEN j \in RightWalkIn(m, 0, m.rlink[0], 0)
  ELSE j \in RightWalkIn(m, n + 1, m.rlink[n + 1], 0)

\* C38: in every configuration, on valid input, cover(j) is only executed when
\* item j is in its active horizontal list and uncover(j) only when it is not.
C38_CoverOnlyActiveItems ==
  (Accepted /\ WellFormed /\ BetweenSteps) =>
    \A k \in 1..Len(CallsOfStep) :
      CallsOfStep[k].cover <=> ActiveIn(CallsOfStep[k].mem, CallsOfStep[k].j)


\* ---------------------------------------------------------------- C39 ----
\* C39: in default mode the driver's undo calls are properly nested: every
\* uncover(i) or unpurify(p) is made when the most recent cover or purify not
\* yet undone is cover(i) or purify(p) on that same item or node, and C7
\* uncovers exactly the item C4 covered at the same level.
C39_UndoCallsAreNested == Accepted => pending.nested

\* a search that has ended with solutions found, after covers and purifies by
\* C4 and by commit were all undone again
C39_Witness ==
  /\ Accepted /\ pc = "Done" /\ Len(visits) > 0
  /\ pending.calls = <<>> /\ pending.nested
  /\ ops > 6 /\ \E p \in DOMAIN color : p > n /\ color[p] > 0

\* ---------------------------------------------------------------- C40 ----
\* the node initialize created for the j-th reference of the k-th option
NodeOfRef(k, j) == FirstNode(k) + j - 1

\* C40: after table building, for every accepted input (the empty string as an
\* item name included), the node created for a reference r of an option has
\* top equal to the index in 1..n of the header named r without its colour.
C40_TopIsHeaderOfReference ==
  JustBuilt =>
    \A k \in NonEmptyOptions : \A j \in 1..Len(options[k]) :
      /\ top[NodeOfRef(k, j)] \in 1..n
      /\ name[top[NodeOfRef(k, j)]] = RefItem(options[k][j])
====
